---------------------------- MODULE Spec2Model ----------------------------
(***************************************************************************)
(* A model of AsRelease (src/src/as-release.c): the release record, its    *)
(* mutators, the enum codecs, and the XML / YAML load and emit routines.   *)
(*                                                                         *)
(* Conventions                                                             *)
(*   - A nullable C string is an option: <<>> is NULL and <<x>> is the     *)
(*     string x.                                                           *)
(*   - A guint64 timestamp is kept as the mixed-radix numeral              *)
(*         [era, doe, sod]  =  (era * 146097 + doe) * 86400 + sod          *)
(*     of its two's-complement signed reading (the reading GLib takes: it  *)
(*     receives the value as gint64).  146097 is the number of days in 400 *)
(*     Gregorian years; the numeral keeps every 64-bit value exact within  *)
(*     32-bit limbs.  The unsigned test "timestamp > 0" is "timestamp is   *)
(*     not zero".                                                          *)
(*   - A date text is the record of the fields an ISO-8601 text spells:    *)
(*     form "datetime" is YYYY-MM-DDThh:mm:ss followed by Z (off = 0) or a *)
(*     numeric offset of off minutes, form "date" is YYYY-MM-DD, form      *)
(*     "junk" is a text that is no date and form "empty" is "".            *)
(***************************************************************************)
EXTENDS Integers, Sequences, FiniteSets, TLC

VARIABLES release, other, doc, op, ret, diag

vars == <<release, other, doc, op, ret, diag>>

---------------------------------------------------------------------------
(* Options: nullable pointers.                                             *)

NULL == <<>>

Some(x) == <<x>>

IsNull(o) == o = <<>>

Get(o) == o[1]

---------------------------------------------------------------------------
(* 64-bit timestamps as [era, doe, sod] numerals.                          *)

SecPerDay == 24 * 60 * 60

DaysPerEra == 400 * 365 + 97

\* The numeral of the signed value days * 86400 + sod.
TsOfDays(days, sod) ==
    [era |-> days \div DaysPerEra, doe |-> days % DaysPerEra, sod |-> sod]

\* The numeral of a (32-bit) number of seconds.
Ts(n) == TsOfDays(n \div SecPerDay, n % SecPerDay)

TsZero == Ts(0)

\* G_MAXINT64 = LONG_MAX = 9223372036854775807 seconds.
LONG_MAX == [era |-> 730692561, doe |-> 82883, sod |-> 55807]

\* G_MININT64 = LONG_MIN = -9223372036854775808 seconds.
LONG_MIN == [era |-> -730692562, doe |-> 63213, sod |-> 30592]

---------------------------------------------------------------------------
(* GLib's GDateTime, on the proleptic Gregorian calendar.  A GDateTime is  *)
(* [d, s]: the day number counted from 1970-01-01 and the second of that   *)
(* day, in UTC.                                                            *)

IsLeap(y) == (y % 4 = 0 /\ y % 100 # 0) \/ y % 400 = 0

DaysInMonth(y, m) ==
    IF m = 2 THEN (IF IsLeap(y) THEN 29 ELSE 28)
    ELSE IF m \in {4, 6, 9, 11} THEN 30 ELSE 31

\* Day number of the civil date y-m-d.
DaysFromCivil(y, m, d) ==
    LET yy  == IF m <= 2 THEN y - 1 ELSE y
        era == yy \div 400
        yoe == yy - era * 400
        mp  == IF m > 2 THEN m - 3 ELSE m + 9
        doy == (153 * mp + 2) \div 5 + d - 1
        doe == yoe * 365 + yoe \div 4 - yoe \div 100 + doy
    IN  era * DaysPerEra + doe - 719468

\* The civil date [y, mo, d] of a day number.
CivilFromDays(days) ==
    LET z   == days + 719468
        era == z \div DaysPerEra
        doe == z - era * DaysPerEra
        yoe == (doe - doe \div 1460 + doe \div 36524 - doe \div 146096) \div 365
        doy == doe - (365 * yoe + yoe \div 4 - yoe \div 100)
        mp  == (5 * doy + 2) \div 153
        m   == IF mp < 10 THEN mp + 3 ELSE mp - 9
    IN  [y  |-> yoe + era * 400 + (IF m <= 2 THEN 1 ELSE 0),
         mo |-> m,
         d  |-> doy - (153 * mp + 2) \div 5 + 1]

\* GDateTime holds the days 0001-01-01 .. 9999-12-31.
MinDay == DaysFromCivil(1, 1, 1)

MaxDay == DaysFromCivil(9999, 12, 31)

\* g_date_time_new_from_unix_utc: NULL when the instant is no day of the
\* years 1..9999.
g_date_time_new_from_unix_utc(ts) ==
    IF ts.era < -6 \/ ts.era > 21 THEN NULL
    ELSE LET days == ts.era * DaysPerEra + ts.doe
         IN  IF days < MinDay \/ days > MaxDay THEN NULL
             ELSE Some([d |-> days, s |-> ts.sod])

\* g_date_time_to_unix, converted to guint64 by the assignment.
g_date_time_to_unix(time) == TsOfDays(time.d, time.s)

\* g_date_time_format_iso8601 of a UTC time with no fraction of a second:
\* "YYYY-MM-DDThh:mm:ssZ".  A NULL time fails the function's precondition
\* and NULL is returned.
g_date_time_format_iso8601(time) ==
    IF IsNull(time) THEN NULL
    ELSE LET t == Get(time)
             c == CivilFromDays(t.d)
         IN  Some([form |-> "datetime", y |-> c.y, mo |-> c.mo, d |-> c.d,
                   h  |-> t.s \div 3600, mi |-> (t.s % 3600) \div 60,
                   s  |-> t.s % 60, off |-> 0])

\* g_date_time_new_utc (y, m, d, 0, 0, 0): NULL for a date the calendar
\* does not have.
g_date_time_new_utc(y, m, d) ==
    IF y \in 1..9999 /\ m \in 1..12 /\ d >= 1 /\ d <= DaysInMonth(y, m)
    THEN Some([d |-> DaysFromCivil(y, m, d), s |-> 0])
    ELSE NULL

\* g_date_time_new_from_iso8601 with UTC as the default zone: a complete
\* date and time, moved to UTC by the text's offset.
g_date_time_new_from_iso8601(text) ==
    IF text.form = "datetime"
       /\ text.y \in 1..9999 /\ text.mo \in 1..12
       /\ text.d >= 1 /\ text.d <= DaysInMonth(text.y, text.mo)
       /\ text.h \in 0..23 /\ text.mi \in 0..59 /\ text.s \in 0..59
    THEN LET secs == text.h * 3600 + text.mi * 60 + text.s - text.off * 60
         IN  Some([d |-> DaysFromCivil(text.y, text.mo, text.d) + secs \div SecPerDay,
                   s |-> secs % SecPerDay])
    ELSE NULL

\* as_iso8601_to_datetime (as-utils.c): NULL for NULL and "", else the
\* complete ISO-8601 reading, else the leading YYYY-MM-DD at midnight UTC.
as_iso8601_to_datetime(iso_date) ==
    IF IsNull(iso_date) \/ Get(iso_date).form = "empty" THEN NULL
    ELSE LET text == Get(iso_date)
             dt   == g_date_time_new_from_iso8601(text)
         IN  IF ~IsNull(dt) THEN dt
             ELSE IF text.form \in {"date", "datetime"}
                  THEN g_date_time_new_utc(text.y, text.mo, text.d)
                  ELSE NULL

---------------------------------------------------------------------------
(* Date texts used as inputs.                                              *)

DateTime(y, mo, d, h, mi, s, off) ==
    [form |-> "datetime", y |-> y, mo |-> mo, d |-> d,
     h |-> h, mi |-> mi, s |-> s, off |-> off]

DateOnly(y, mo, d) ==
    [form |-> "date", y |-> y, mo |-> mo, d |-> d,
     h |-> 0, mi |-> 0, s |-> 0, off |-> 0]

\* "not-a-date"
NotADate ==
    [form |-> "junk", y |-> 0, mo |-> 0, d |-> 0,
     h |-> 0, mi |-> 0, s |-> 0, off |-> 0]

\* ""
EmptyText ==
    [form |-> "empty", y |-> 0, mo |-> 0, d |-> 0,
     h |-> 0, mi |-> 0, s |-> 0, off |-> 0]

---------------------------------------------------------------------------
(* The enumerations (as-release.h) and their codecs.                       *)

AS_RELEASE_KIND_UNKNOWN == "AS_RELEASE_KIND_UNKNOWN"

AS_RELEASE_KIND_STABLE == "AS_RELEASE_KIND_STABLE"

AS_RELEASE_KIND_DEVELOPMENT == "AS_RELEASE_KIND_DEVELOPMENT"

AsReleaseKind ==
    {AS_RELEASE_KIND_UNKNOWN, AS_RELEASE_KIND_STABLE, AS_RELEASE_KIND_DEVELOPMENT}

AS_URGENCY_KIND_UNKNOWN == "AS_URGENCY_KIND_UNKNOWN"

AS_URGENCY_KIND_LOW == "AS_URGENCY_KIND_LOW"

AS_URGENCY_KIND_MEDIUM == "AS_URGENCY_KIND_MEDIUM"

AS_URGENCY_KIND_HIGH == "AS_URGENCY_KIND_HIGH"

AS_URGENCY_KIND_CRITICAL == "AS_URGENCY_KIND_CRITICAL"

AsUrgencyKind ==
    {AS_URGENCY_KIND_UNKNOWN, AS_URGENCY_KIND_LOW, AS_URGENCY_KIND_MEDIUM,
     AS_URGENCY_KIND_HIGH, AS_URGENCY_KIND_CRITICAL}

AS_RELEASE_URL_KIND_UNKNOWN == "AS_RELEASE_URL_KIND_UNKNOWN"

AS_RELEASE_URL_KIND_DETAILS == "AS_RELEASE_URL_KIND_DETAILS"

AsReleaseUrlKind == {AS_RELEASE_URL_KIND_UNKNOWN, AS_RELEASE_URL_KIND_DETAILS}

\* g_strcmp0 (a, b) == 0, for a nullable a and a literal b.
StrEq(a, b) == a = Some(b)

as_release_kind_to_string(kind) ==
    IF kind = AS_RELEASE_KIND_STABLE THEN "stable"
    ELSE IF kind = AS_RELEASE_KIND_DEVELOPMENT THEN "development"
    ELSE "unknown"

\* Mutant: the "development" name is not recognised.
as_release_kind_from_string_no_development(kind_str) ==
    IF StrEq(kind_str, "stable") THEN AS_RELEASE_KIND_STABLE
    ELSE AS_RELEASE_KIND_UNKNOWN

as_release_kind_from_string(kind_str) ==
    IF StrEq(kind_str, "stable") THEN AS_RELEASE_KIND_STABLE
    ELSE IF StrEq(kind_str, "development") THEN AS_RELEASE_KIND_DEVELOPMENT
    ELSE AS_RELEASE_KIND_UNKNOWN

as_urgency_kind_to_string(urgency_kind) ==
    IF urgency_kind = AS_URGENCY_KIND_LOW THEN "low"
    ELSE IF urgency_kind = AS_URGENCY_KIND_MEDIUM THEN "medium"
    ELSE IF urgency_kind = AS_URGENCY_KIND_HIGH THEN "high"
    ELSE IF urgency_kind = AS_URGENCY_KIND_CRITICAL THEN "critical"
    ELSE "unknown"

as_urgency_kind_from_string(urgency_kind) ==
    IF StrEq(urgency_kind, "low") THEN AS_URGENCY_KIND_LOW
    ELSE IF StrEq(urgency_kind, "medium") THEN AS_URGENCY_KIND_MEDIUM
    ELSE IF StrEq(urgency_kind, "high") THEN AS_URGENCY_KIND_HIGH
    ELSE IF StrEq(urgency_kind, "critical") THEN AS_URGENCY_KIND_CRITICAL
    ELSE AS_URGENCY_KIND_UNKNOWN

as_release_url_kind_to_string(kind) ==
    IF kind = AS_RELEASE_URL_KIND_DETAILS THEN "details" ELSE "unknown"

\* Mutant: no default for a NULL string.
as_release_url_kind_from_string_no_default(kind_str) ==
    IF StrEq(kind_str, "details") THEN AS_RELEASE_URL_KIND_DETAILS
    ELSE AS_RELEASE_URL_KIND_UNKNOWN

as_release_url_kind_from_string(kind_str) ==
    IF IsNull(kind_str) THEN AS_RELEASE_URL_KIND_DETAILS
    ELSE IF StrEq(kind_str, "details") THEN AS_RELEASE_URL_KIND_DETAILS
    ELSE AS_RELEASE_URL_KIND_UNKNOWN

---------------------------------------------------------------------------
(* The release record (AsReleasePrivate) and its mutators, as functions    *)
(* from the record before the call to the record after it.                 *)

\* as_release_new / as_release_init.  The zero-filled instance memory
\* leaves the pointers NULL and the timestamp 0; description is an empty
\* table from locale to markup, issues and artifacts are empty arrays.
as_release_init ==
    [kind              |-> AS_RELEASE_KIND_STABLE,
     version           |-> NULL,
     description       |-> <<>>,
     timestamp         |-> TsZero,
     date              |-> NULL,
     date_eol          |-> NULL,
     context           |-> NULL,
     desc_translatable |-> TRUE,
     issues            |-> <<>>,
     artifacts         |-> <<>>,
     url_details       |-> NULL,
     urgency           |-> AS_URGENCY_KIND_UNKNOWN]

\* as_assign_string_safe (target, new_val): target becomes a copy of new_val
\* (NULL for NULL); when both are the same pointer nothing is freed.
as_assign_string_safe(target, new_val) == new_val

as_release_set_kind(r, kind) == [r EXCEPT !.kind = kind]

\* Mutant: a NULL version leaves the version as it is.
as_release_set_version_keep_on_null(r, version) ==
    IF IsNull(version) THEN r
    ELSE [r EXCEPT !.version = as_assign_string_safe(r.version, version)]

as_release_set_version(r, version) ==
    [r EXCEPT !.version = as_assign_string_safe(r.version, version)]

\* Mutant: the timestamp is stored and the date is not recomputed.
as_release_set_timestamp_stale_date(r, timestamp) ==
    [r EXCEPT !.timestamp = timestamp]

\* Mutant: a timestamp of 0 returns early, as in as_release_set_timestamp_eol.
as_release_set_timestamp_skip_zero(r, timestamp) ==
    IF timestamp = TsZero THEN r
    ELSE [r EXCEPT !.timestamp = timestamp,
                   !.date = g_date_time_format_iso8601(
                                g_date_time_new_from_unix_utc(timestamp))]

as_release_set_timestamp(r, timestamp) ==
    LET time == g_date_time_new_from_unix_utc(timestamp)
    IN  [r EXCEPT !.timestamp = timestamp,
                  !.date = g_date_time_format_iso8601(time)]

\* Mutant: the date text is stored before it is validated.
as_release_set_date_unchecked(r, date) ==
    IF IsNull(date) THEN r
    ELSE LET time == as_iso8601_to_datetime(date)
         IN  IF ~IsNull(time)
             THEN [r EXCEPT !.timestamp = g_date_time_to_unix(Get(time)),
                            !.date = date]
             ELSE [r EXCEPT !.date = date]

\* Mutant: the time of day of the date text is dropped.
as_release_set_date_midnight(r, date) ==
    IF IsNull(date) THEN r
    ELSE LET time == as_iso8601_to_datetime(date)
         IN  IF ~IsNull(time)
             THEN [r EXCEPT !.timestamp = TsOfDays(Get(time).d, 0),
                            !.date = date]
             ELSE r

as_release_set_date(r, date) ==
    IF IsNull(date) THEN r
    ELSE LET time == as_iso8601_to_datetime(date)
         IN  IF ~IsNull(time)
             THEN [r EXCEPT !.timestamp = g_date_time_to_unix(Get(time)),
                            !.date = as_assign_string_safe(r.date, date)]
             ELSE r

as_release_set_date_eol(r, date) ==
    IF IsNull(date) THEN r
    ELSE [r EXCEPT !.date_eol = as_assign_string_safe(r.date_eol, date)]

as_release_get_timestamp_eol(r) ==
    IF IsNull(r.date_eol) THEN TsZero
    ELSE LET time == as_iso8601_to_datetime(r.date_eol)
         IN  IF ~IsNull(time) THEN g_date_time_to_unix(Get(time)) ELSE TsZero

\* Mutant: no early return for a timestamp of 0.
as_release_set_timestamp_eol_no_zero_check(r, timestamp) ==
    [r EXCEPT !.date_eol = g_date_time_format_iso8601(
                               g_date_time_new_from_unix_utc(timestamp))]

as_release_set_timestamp_eol(r, timestamp) ==
    IF timestamp = TsZero THEN r
    ELSE LET time == g_date_time_new_from_unix_utc(timestamp)
         IN  [r EXCEPT !.date_eol = g_date_time_format_iso8601(time)]

as_release_set_urgency(r, urgency) == [r EXCEPT !.urgency = urgency]

as_release_get_url(r, url_kind) ==
    IF url_kind = AS_RELEASE_URL_KIND_DETAILS THEN r.url_details ELSE NULL

as_release_set_url(r, url_kind, url) ==
    IF url_kind = AS_RELEASE_URL_KIND_DETAILS
    THEN [r EXCEPT !.url_details = as_assign_string_safe(r.url_details, url)]
    ELSE r

as_release_set_context(r, context) == [r EXCEPT !.context = context]

as_release_set_description_translatable(r, translatable) ==
    [r EXCEPT !.desc_translatable = translatable]

as_release_add_artifact(r, artifact) ==
    [r EXCEPT !.artifacts = Append(r.artifacts, artifact)]

as_release_add_issue(r, issue) ==
    [r EXCEPT !.issues = Append(r.issues, issue)]

---------------------------------------------------------------------------
(* The document context (as-context.c): the format style and the locale    *)
(* it selects, "ALL" selecting every locale.                               *)

AS_FORMAT_STYLE_UNKNOWN == "AS_FORMAT_STYLE_UNKNOWN"

AS_FORMAT_STYLE_METAINFO == "AS_FORMAT_STYLE_METAINFO"

AS_FORMAT_STYLE_CATALOG == "AS_FORMAT_STYLE_CATALOG"

Context(style, locale) == [style |-> style, locale |-> locale]

as_context_get_style(ctx) == ctx.style

\* as_context_localized_ht_set: the entry of the given locale, of the
\* context's locale when none is given, or of "C" when there is neither, is
\* set to value.
as_context_localized_ht_set(ctx, lht, value, locale) ==
    LET selected == IF ~IsNull(ctx) /\ IsNull(locale) THEN Some(Get(ctx).locale)
                    ELSE IF IsNull(locale) THEN Some("C") ELSE locale
    IN  (Get(selected) :> value) @@ lht

as_release_set_description(r, description, locale) ==
    IF IsNull(description) THEN r
    ELSE [r EXCEPT !.description =
              as_context_localized_ht_set(r.context, r.description,
                                          Get(description), locale)]

---------------------------------------------------------------------------
(* XML trees (as-xml.c).  A release node is the record of its attributes,  *)
(* each an option, and the sequence of its children.  A child has element  *)
(* (FALSE for text and comment nodes), a name, and by name:                *)
(*   description  lang and translatable attributes, and content: in        *)
(*                catalog style the markup of the one language, in         *)
(*                metainfo style the table from locale to markup that the  *)
(*                fused node spells;                                       *)
(*   url          value, the text of the node;                             *)
(*   issues, artifacts   children, the item nodes; an item has an id and   *)
(*                ok, whether the item's own loader accepts it.            *)
(* A text read as a number is [lead, sign, digits, tail]: lead is the       *)
(* blanks it starts with, sign is "", "+" or "-", digits is NULL when no    *)
(* digit follows the sign and else <<ts>> for the decimal numeral of the    *)
(* unsigned value whose signed reading is ts, and tail is what follows the *)
(* digits.                                                                 *)

\* The value of the attribute of the name in a list of attributes, NULL
\* when there is none.
AttrValue(attrs, name) ==
    IF \E i \in 1..Len(attrs) : attrs[i].name = name
    THEN Some(attrs[CHOOSE i \in 1..Len(attrs) : attrs[i].name = name].value)
    ELSE NULL

\* The release node of an element with the attributes, in the order of the
\* source text; a well-formed element has no attribute name twice.  The
\* node holds the value of each attribute, NULL for one it does not have,
\* and order, the names of its attributes as the text lists them.
XmlElement(attrs, children) ==
    [type |-> AttrValue(attrs, "type"), version |-> AttrValue(attrs, "version"),
     date |-> AttrValue(attrs, "date"), date_eol |-> AttrValue(attrs, "date_eol"),
     timestamp |-> AttrValue(attrs, "timestamp"),
     urgency |-> AttrValue(attrs, "urgency"),
     order |-> [i \in 1..Len(attrs) |-> attrs[i].name],
     children |-> children]

\* The release node as_xml_add_text_prop builds: the attributes are in the
\* order as_release_to_xml_node adds them (type, version, timestamp or date,
\* date_eol, urgency), and a NULL value adds none.
XmlRelease(type, version, date, date_eol, timestamp, urgency, children) ==
    [type |-> type, version |-> version, date |-> date, date_eol |-> date_eol,
     timestamp |-> timestamp, urgency |-> urgency,
     order |-> (IF IsNull(type) THEN <<>> ELSE <<"type">>)
               \o (IF IsNull(version) THEN <<>> ELSE <<"version">>)
               \o (IF IsNull(timestamp) THEN <<>> ELSE <<"timestamp">>)
               \o (IF IsNull(date) THEN <<>> ELSE <<"date">>)
               \o (IF IsNull(date_eol) THEN <<>> ELSE <<"date_eol">>)
               \o (IF IsNull(urgency) THEN <<>> ELSE <<"urgency">>),
     children |-> children]

\* as_xml_get_prop_value: the attributes of the node are gone through in
\* their order for the one of the name; its value, NULL when there is none.
as_xml_get_prop_value(node, name) ==
    IF \E i \in 1..Len(node.order) : node.order[i] = name
    THEN node[name]
    ELSE NULL

XmlDescription(lang, translatable, content) ==
    [element |-> TRUE, name |-> "description", lang |-> lang,
     translatable |-> translatable, content |-> content]

XmlUrl(value) == [element |-> TRUE, name |-> "url", value |-> value]

XmlList(name, children) == [element |-> TRUE, name |-> name, children |-> children]

XmlOther(element, name) == [element |-> element, name |-> name]

Item(element, id, ok) == [element |-> element, id |-> id, ok |-> ok]

NumText(lead, sign, digits, tail) ==
    [lead |-> lead, sign |-> sign, digits |-> digits, tail |-> tail]

\* The numeral "%" G_GUINT64_FORMAT writes.
NumU64(ts) == NumText("", "", Some(ts), "")

\* "soon".
NumJunk == NumText("", "", NULL, "soon")

\* The numeral of -v for the numeral of v, modulo 2^64.
TsNeg(ts) ==
    IF ts.sod = 0
    THEN IF ts.doe = 0 THEN [era |-> -ts.era, doe |-> 0, sod |-> 0]
         ELSE [era |-> -ts.era - 1, doe |-> DaysPerEra - ts.doe, sod |-> 0]
    ELSE [era |-> -ts.era - 1, doe |-> DaysPerEra - 1 - ts.doe,
          sod |-> SecPerDay - ts.sod]

\* atol: the blanks the text starts with are skipped, a sign is taken, and
\* the digits that follow are read up to the first other character; 0 when
\* no digit follows.  The long is stored in a guint64, a negative one modulo
\* 2^64.  A numeral outside the range of long is outside what C defines for
\* atol; the C library of the build (glibc, where atol is strtol) returns
\* LONG_MAX or LONG_MIN for it.
atol(nptr) ==
    IF IsNull(nptr.digits) THEN TsZero
    ELSE LET magnitude == Get(nptr.digits)
         IN  IF nptr.sign = "-"
             THEN IF magnitude.era < 0 THEN LONG_MIN ELSE TsNeg(magnitude)
             ELSE IF magnitude.era < 0 THEN LONG_MAX ELSE magnitude

\* as_xml_get_node_locale_match: "C" for a node with no language, the node's
\* language when the context selects it, else NULL.
as_xml_get_node_locale_match(ctx, node) ==
    IF IsNull(node.lang) THEN Some("C")
    ELSE IF ctx.locale \in {"ALL", Get(node.lang)} THEN node.lang
    ELSE NULL

\* as_xml_parse_metainfo_description_node: every locale of the fused node
\* that the context selects is entered into the table.
as_xml_parse_metainfo_description_node(ctx, node, table) ==
    LET sel == {l \in DOMAIN node.content : ctx.locale \in {"ALL", l} \/ l = "C"}
    IN  [l \in sel \cup DOMAIN table |->
            IF l \in sel THEN node.content[l] ELSE table[l]]

\* The loaders of the collaborators: as_issue_load_from_xml,
\* as_artifact_load_from_xml, as_issue_load_from_yaml and
\* as_artifact_load_from_yaml report whether the item is well-formed, and
\* the loaded object keeps the item's content.
as_issue_load(ctx, node) == node.ok

as_artifact_load(ctx, node) == node.ok

Loaded(node) == [id |-> node.id]

\* The emitters of the collaborators write a well-formed item.
Emitted(object) == Item(TRUE, object.id, TRUE)

\* The elements of a set in a sequence, in the table's iteration order.
RECURSIVE SeqOfSet(_)
SeqOfSet(S) ==
    IF S = {} THEN <<>>
    ELSE LET x == CHOOSE y \in S : TRUE IN <<x>> \o SeqOfSet(S \ {x})

\* as_xml_add_description_node: in metainfo style one fused node of all
\* locales, marked translatable="no" when the flag is off, and nothing for
\* an empty table; otherwise one node per locale, tagged with its language
\* unless that is "C".
as_xml_add_description_node(ctx, table, translatable) ==
    IF as_context_get_style(ctx) = AS_FORMAT_STYLE_METAINFO
    THEN IF DOMAIN table = {} THEN <<>>
         ELSE <<XmlDescription(NULL, IF translatable THEN NULL ELSE Some("no"),
                               table)>>
    ELSE LET keys == SeqOfSet(DOMAIN table)
         IN  [i \in 1..Len(keys) |->
                 XmlDescription(IF keys[i] = "C" THEN NULL ELSE Some(keys[i]),
                                NULL, table[keys[i]])]

---------------------------------------------------------------------------
(* as_release_load_from_xml.                                               *)

\* Mutant: the loop over the items ends at the first item that fails.
RECURSIVE XmlLoadIssues_stop_at_failure(_, _, _)
XmlLoadIssues_stop_at_failure(r, ctx, iter2) ==
    IF iter2 = <<>> THEN r
    ELSE LET n == Head(iter2)
         IN  IF ~n.element THEN XmlLoadIssues_stop_at_failure(r, ctx, Tail(iter2))
             ELSE IF as_issue_load(ctx, n)
                  THEN XmlLoadIssues_stop_at_failure(
                           as_release_add_issue(r, Loaded(n)), ctx, Tail(iter2))
                  ELSE r

\* The loop over the children of an issues node.
RECURSIVE XmlLoadIssues(_, _, _)
XmlLoadIssues(r, ctx, iter2) ==
    IF iter2 = <<>> THEN r
    ELSE LET n == Head(iter2)
         IN  XmlLoadIssues(IF n.element /\ as_issue_load(ctx, n)
                           THEN as_release_add_issue(r, Loaded(n))
                           ELSE r,
                           ctx, Tail(iter2))

\* The loop over the children of an artifacts node.
RECURSIVE XmlLoadArtifacts(_, _, _)
XmlLoadArtifacts(r, ctx, iter2) ==
    IF iter2 = <<>> THEN r
    ELSE LET n == Head(iter2)
         IN  XmlLoadArtifacts(IF n.element /\ as_artifact_load(ctx, n)
                              THEN as_release_add_artifact(r, Loaded(n))
                              ELSE r,
                              ctx, Tail(iter2))

\* The description branch: the table is emptied, then filled from the node.
XmlLoadDescription(r, ctx, iter) ==
    LET cleared == [r EXCEPT !.description = <<>>]
    IN  IF as_context_get_style(ctx) = AS_FORMAT_STYLE_CATALOG
        THEN LET lang == as_xml_get_node_locale_match(ctx, iter)
             IN  IF ~IsNull(lang)
                 THEN as_release_set_description(cleared, Some(iter.content), lang)
                 ELSE cleared
        ELSE [cleared EXCEPT
                 !.description = as_xml_parse_metainfo_description_node(
                                     ctx, iter, cleared.description),
                 !.desc_translatable = IF IsNull(iter.translatable) THEN TRUE
                                       ELSE iter.translatable # Some("no")]

\* One round of the loop over the children of the release node.
XmlLoadChild(r, ctx, iter) ==
    IF ~iter.element THEN r
    ELSE IF iter.name = "artifacts" THEN XmlLoadArtifacts(r, ctx, iter.children)
    ELSE IF iter.name = "description" THEN XmlLoadDescription(r, ctx, iter)
    ELSE IF iter.name = "url"
         THEN as_release_set_url(r, AS_RELEASE_URL_KIND_DETAILS, iter.value)
    ELSE IF iter.name = "issues" THEN XmlLoadIssues(r, ctx, iter.children)
    ELSE r

RECURSIVE XmlLoadChildren(_, _, _)
XmlLoadChildren(r, ctx, children) ==
    IF children = <<>> THEN r
    ELSE XmlLoadChildren(XmlLoadChild(r, ctx, Head(children)), ctx, Tail(children))

\* The attributes, in the order the code reads them.
\* Mutant: a type that is no name of a kind leaves the kind as it was.
XmlLoadType_keep_on_unknown(r, node) ==
    LET prop == as_xml_get_prop_value(node, "type")
    IN  IF ~IsNull(prop)
           /\ as_release_kind_from_string(prop) # AS_RELEASE_KIND_UNKNOWN
        THEN [r EXCEPT !.kind = as_release_kind_from_string(prop)]
        ELSE r

XmlLoadType(r, node) ==
    LET prop == as_xml_get_prop_value(node, "type")
    IN  IF ~IsNull(prop)
        THEN [r EXCEPT !.kind = as_release_kind_from_string(prop)]
        ELSE r

XmlLoadDate(r, node) ==
    LET prop == as_xml_get_prop_value(node, "date")
    IN  IF ~IsNull(prop)
        THEN LET time == as_iso8601_to_datetime(prop)
             IN  IF ~IsNull(time)
                 THEN [r EXCEPT !.timestamp = g_date_time_to_unix(Get(time)),
                                !.date = prop]
                 ELSE r
        ELSE r

XmlLoadDateEol(r, node) ==
    LET prop == as_xml_get_prop_value(node, "date_eol")
    IN  IF ~IsNull(prop) THEN [r EXCEPT !.date_eol = prop] ELSE r

\* Mutant: a valid date attribute takes precedence over the timestamp
\* attribute.
XmlLoadTimestamp_date_wins(r, node) ==
    LET prop == as_xml_get_prop_value(node, "timestamp")
        date == as_xml_get_prop_value(node, "date")
    IN  IF ~IsNull(prop) /\ (IsNull(date) \/ IsNull(as_iso8601_to_datetime(date)))
        THEN [r EXCEPT !.timestamp = atol(Get(prop))]
        ELSE r

\* Mutant: the timestamp attribute is not read.
XmlLoadTimestamp_ignored(r, node) == r

XmlLoadTimestamp(r, node) ==
    LET prop == as_xml_get_prop_value(node, "timestamp")
    IN  IF ~IsNull(prop) THEN [r EXCEPT !.timestamp = atol(Get(prop))] ELSE r

XmlLoadUrgency(r, node) ==
    LET prop == as_xml_get_prop_value(node, "urgency")
    IN  IF ~IsNull(prop)
        THEN [r EXCEPT !.urgency = as_urgency_kind_from_string(prop)]
        ELSE r

\* Mutant: a date attribute that does not parse ends the load.
as_release_load_from_xml_abort_on_bad_date(r, ctx, node) ==
    LET r0 == as_release_set_context(r, Some(ctx))
        r1 == XmlLoadType(r0, node)
        r2 == as_release_set_version(r1, as_xml_get_prop_value(node, "version"))
        r3 == XmlLoadDate(r2, node)
        r4 == XmlLoadDateEol(r3, node)
        r5 == XmlLoadTimestamp(r4, node)
        r6 == XmlLoadUrgency(r5, node)
    IN  IF /\ ~IsNull(as_xml_get_prop_value(node, "date"))
           /\ IsNull(as_iso8601_to_datetime(as_xml_get_prop_value(node, "date")))
        THEN r2
        ELSE XmlLoadChildren(r6, ctx, node.children)

as_release_load_from_xml(r, ctx, node) ==
    LET r0 == as_release_set_context(r, Some(ctx))
        r1 == XmlLoadType(r0, node)
        r2 == as_release_set_version(r1, as_xml_get_prop_value(node, "version"))
        r3 == XmlLoadDate(r2, node)
        r4 == XmlLoadDateEol(r3, node)
        r5 == XmlLoadTimestamp(r4, node)
        r6 == XmlLoadUrgency(r5, node)
    IN  XmlLoadChildren(r6, ctx, node.children)

---------------------------------------------------------------------------
(* as_release_to_xml_node: the release node added to the root.             *)

\* as_xml_add_text_prop adds no attribute for a NULL value.
as_xml_add_text_prop(value) == value

\* Mutant: the date attribute is written from the date field in every style.
XmlEmitInstant_always_date(r, ctx) ==
    IF r.timestamp # TsZero
    THEN IF as_context_get_style(ctx) = AS_FORMAT_STYLE_CATALOG
         THEN [timestamp |-> Some(NumU64(r.timestamp)), date |-> r.date]
         ELSE [timestamp |-> NULL, date |-> r.date]
    ELSE [timestamp |-> NULL, date |-> NULL]

\* The timestamp or date attribute: [timestamp, date].
XmlEmitInstant(r, ctx) ==
    IF r.timestamp # TsZero
    THEN IF as_context_get_style(ctx) = AS_FORMAT_STYLE_CATALOG
         THEN [timestamp |-> as_xml_add_text_prop(Some(NumU64(r.timestamp))),
               date |-> NULL]
         ELSE [timestamp |-> NULL,
               date |-> as_xml_add_text_prop(
                            g_date_time_format_iso8601(
                                g_date_time_new_from_unix_utc(r.timestamp)))]
    ELSE [timestamp |-> NULL, date |-> NULL]

EmitItems(objects) == [i \in 1..Len(objects) |-> Emitted(objects[i])]

as_release_to_xml_node(r, ctx) ==
    LET instant == XmlEmitInstant(r, ctx)
    IN  XmlRelease(
            as_xml_add_text_prop(Some(as_release_kind_to_string(r.kind))),
            as_xml_add_text_prop(r.version),
            instant.date,
            IF ~IsNull(r.date_eol) THEN as_xml_add_text_prop(r.date_eol) ELSE NULL,
            instant.timestamp,
            IF r.urgency # AS_URGENCY_KIND_UNKNOWN
            THEN as_xml_add_text_prop(Some(as_urgency_kind_to_string(r.urgency)))
            ELSE NULL,
            as_xml_add_description_node(ctx, r.description, r.desc_translatable)
            \o (IF ~IsNull(r.url_details) THEN <<XmlUrl(r.url_details)>> ELSE <<>>)
            \o (IF Len(r.issues) > 0
                THEN <<XmlList("issues", EmitItems(r.issues))>> ELSE <<>>)
            \o (IF Len(r.artifacts) > 0
                THEN <<XmlList("artifacts", EmitItems(r.artifacts))>> ELSE <<>>))

---------------------------------------------------------------------------
(* YAML trees (as-yaml.c).  A mapping is the sequence of its entries; an   *)
(* entry has a key and a scalar value (both options) and children (the     *)
(* entries or items of a nested mapping or sequence).                      *)

YamlEntry(key, value) == [key |-> Some(key), value |-> value, children |-> <<>>]

YamlNested(key, children) ==
    [key |-> Some(key), value |-> NULL, children |-> children]

as_yaml_node_get_key(n) == n.key

as_yaml_node_get_value(n) == n.value

\* as_yaml_set_localized_table: every entry whose locale the context selects
\* is entered into the table.
RECURSIVE as_yaml_set_localized_table(_, _, _)
as_yaml_set_localized_table(ctx, children, table) ==
    IF children = <<>> THEN table
    ELSE LET n == Head(children)
         IN  as_yaml_set_localized_table(
                 ctx, Tail(children),
                 IF (ctx.locale \in {"ALL", Get(n.key)} \/ Get(n.key) = "C")
                    /\ ~IsNull(n.value)
                 THEN (Get(n.key) :> Get(n.value)) @@ table
                 ELSE table)

\* as_yaml_emit_long_localized_entry: nothing for an empty table.
as_yaml_emit_long_localized_entry(key, table) ==
    IF DOMAIN table = {} THEN <<>>
    ELSE LET keys == SeqOfSet(DOMAIN table)
         IN  <<YamlNested(key, [i \in 1..Len(keys) |->
                                   YamlEntry(keys[i], Some(table[keys[i]]))])>>

\* as_yaml_emit_entry: nothing for a NULL value.
as_yaml_emit_entry(key, value) ==
    IF IsNull(value) THEN <<>> ELSE <<YamlEntry(key, value)>>

\* as_yaml_emit_entry_timestamp: the decimal numeral of the guint64.
as_yaml_emit_entry_timestamp(key, unixtime) == <<YamlEntry(key, Some(NumU64(unixtime)))>>

---------------------------------------------------------------------------
(* as_release_load_from_yaml.                                              *)

\* The keys of a release mapping that the loader knows.
YamlKeys ==
    {"unix-timestamp", "date", "date-eol", "type", "version", "urgency",
     "description", "url", "issues", "artifacts"}

RECURSIVE YamlLoadUrls(_, _)
YamlLoadUrls(r, urls_n) ==
    IF urls_n = <<>> THEN r
    ELSE LET c_key    == as_yaml_node_get_key(Head(urls_n))
             c_value  == as_yaml_node_get_value(Head(urls_n))
             url_kind == as_release_url_kind_from_string(c_key)
         IN  YamlLoadUrls(IF url_kind # AS_RELEASE_URL_KIND_UNKNOWN /\ ~IsNull(c_value)
                          THEN as_release_set_url(r, url_kind, c_value)
                          ELSE r,
                          Tail(urls_n))

RECURSIVE YamlLoadIssues(_, _, _)
YamlLoadIssues(r, ctx, sn) ==
    IF sn = <<>> THEN r
    ELSE YamlLoadIssues(IF as_issue_load(ctx, Head(sn))
                        THEN as_release_add_issue(r, Loaded(Head(sn)))
                        ELSE r,
                        ctx, Tail(sn))

RECURSIVE YamlLoadArtifacts(_, _, _)
YamlLoadArtifacts(r, ctx, sn) ==
    IF sn = <<>> THEN r
    ELSE YamlLoadArtifacts(IF as_artifact_load(ctx, Head(sn))
                           THEN as_release_add_artifact(r, Loaded(Head(sn)))
                           ELSE r,
                           ctx, Tail(sn))

\* Mutant: the unix-timestamp entry goes through as_release_set_timestamp,
\* which rewrites the date.
YamlLoadEntry_syncs_date(r, ctx, n) ==
    LET key   == as_yaml_node_get_key(n)
        value == as_yaml_node_get_value(n)
    IN  IF StrEq(key, "unix-timestamp") THEN as_release_set_timestamp(r, atol(Get(value)))
        ELSE IF StrEq(key, "date")
             THEN LET time == as_iso8601_to_datetime(value)
                  IN  IF ~IsNull(time)
                      THEN [r EXCEPT !.timestamp = g_date_time_to_unix(Get(time))]
                      ELSE r
        ELSE IF StrEq(key, "date-eol") THEN as_release_set_date_eol(r, value)
        ELSE IF StrEq(key, "type")
             THEN [r EXCEPT !.kind = as_release_kind_from_string(value)]
        ELSE IF StrEq(key, "version") THEN as_release_set_version(r, value)
        ELSE IF StrEq(key, "urgency")
             THEN [r EXCEPT !.urgency = as_urgency_kind_from_string(value)]
        ELSE IF StrEq(key, "description")
             THEN [r EXCEPT !.description =
                       as_yaml_set_localized_table(ctx, n.children, r.description)]
        ELSE IF StrEq(key, "url") THEN YamlLoadUrls(r, n.children)
        ELSE IF StrEq(key, "issues") THEN YamlLoadIssues(r, ctx, n.children)
        ELSE IF StrEq(key, "artifacts") THEN YamlLoadArtifacts(r, ctx, n.children)
        ELSE r

\* One round of the loop over the entries of the mapping.
YamlLoadEntry(r, ctx, n) ==
    LET key   == as_yaml_node_get_key(n)
        value == as_yaml_node_get_value(n)
    IN  IF StrEq(key, "unix-timestamp") THEN [r EXCEPT !.timestamp = atol(Get(value))]
        ELSE IF StrEq(key, "date")
             THEN LET time == as_iso8601_to_datetime(value)
                  IN  IF ~IsNull(time)
                      THEN [r EXCEPT !.timestamp = g_date_time_to_unix(Get(time))]
                      ELSE r
        ELSE IF StrEq(key, "date-eol") THEN as_release_set_date_eol(r, value)
        ELSE IF StrEq(key, "type")
             THEN [r EXCEPT !.kind = as_release_kind_from_string(value)]
        ELSE IF StrEq(key, "version") THEN as_release_set_version(r, value)
        ELSE IF StrEq(key, "urgency")
             THEN [r EXCEPT !.urgency = as_urgency_kind_from_string(value)]
        ELSE IF StrEq(key, "description")
             THEN [r EXCEPT !.description =
                       as_yaml_set_localized_table(ctx, n.children, r.description)]
        ELSE IF StrEq(key, "url") THEN YamlLoadUrls(r, n.children)
        ELSE IF StrEq(key, "issues") THEN YamlLoadIssues(r, ctx, n.children)
        ELSE IF StrEq(key, "artifacts") THEN YamlLoadArtifacts(r, ctx, n.children)
        ELSE r

RECURSIVE YamlLoadEntries(_, _, _)
YamlLoadEntries(r, ctx, entries) ==
    IF entries = <<>> THEN r
    ELSE YamlLoadEntries(YamlLoadEntry(r, ctx, Head(entries)), ctx, Tail(entries))

as_release_load_from_yaml(r, ctx, node) ==
    YamlLoadEntries(as_release_set_context(r, Some(ctx)), ctx, node)

---------------------------------------------------------------------------
(* as_release_emit_yaml: the mapping written for the release.              *)

YamlEmitInstant(r, ctx) ==
    IF r.timestamp # TsZero
    THEN IF as_context_get_style(ctx) = AS_FORMAT_STYLE_CATALOG
         THEN as_yaml_emit_entry_timestamp("unix-timestamp", r.timestamp)
         ELSE as_yaml_emit_entry("date",
                  g_date_time_format_iso8601(
                      g_date_time_new_from_unix_utc(r.timestamp)))
    ELSE <<>>

as_release_emit_yaml(r, ctx) ==
    as_yaml_emit_entry("version", r.version)
    \o as_yaml_emit_entry("type", Some(as_release_kind_to_string(r.kind)))
    \o YamlEmitInstant(r, ctx)
    \o as_yaml_emit_entry("date-eol", r.date_eol)
    \o (IF r.urgency # AS_URGENCY_KIND_UNKNOWN
        THEN as_yaml_emit_entry("urgency",
                                Some(as_urgency_kind_to_string(r.urgency)))
        ELSE <<>>)
    \o as_yaml_emit_long_localized_entry("description", r.description)
    \o (IF ~IsNull(r.url_details)
        THEN <<YamlNested("url",
                  as_yaml_emit_entry(
                      as_release_url_kind_to_string(AS_RELEASE_URL_KIND_DETAILS),
                      r.url_details))>>
        ELSE <<>>)
    \o (IF Len(r.issues) > 0
        THEN <<YamlNested("issues", EmitItems(r.issues))>> ELSE <<>>)
    \o (IF Len(r.artifacts) > 0
        THEN <<YamlNested("artifacts", EmitItems(r.artifacts))>> ELSE <<>>)

---------------------------------------------------------------------------
(* State.  release is the record under test and other a second instance;  *)
(* doc is the document the last emit call wrote (NULL before the first),   *)
(* with its format and context; op is the last call made, with its         *)
(* arguments (fresh tells a load into a new record from one into release), *)
(* ret what it returned, an option (NULL for a void call and for a NULL    *)
(* pointer, <<v>> for a value v), and diag the most severe diagnostic it   *)
(* raised: "none", "debug", "warning" or "critical".                       *)

Init ==
    /\ release = as_release_init
    /\ other = as_release_init
    /\ doc = NULL
    /\ op = [name |-> "as_release_new"]
    /\ ret = NULL
    /\ diag = "none"

---------------------------------------------------------------------------
(* Inputs.                                                                 *)

\* Timestamps 0 .. MaxSmallTs are passed to the setters, besides the
\* values of EdgeTimestamps.
MaxSmallTs == 2

\* 1700000000; 253402300799 (9999-12-31T23:59:59Z); 253402300800;
\* 2^63 - 1; 2^64 - 1 (read as -1: 1969-12-31T23:59:59Z);
\* 2^64 - 62135596800 (0001-01-01T00:00:00Z) and the value below it.
EdgeTimestamps ==
    {Ts(1700000000), TsOfDays(MaxDay, SecPerDay - 1), TsOfDays(MaxDay + 1, 0),
     LONG_MAX, Ts(-1), TsOfDays(MinDay, 0), TsOfDays(MinDay - 1, SecPerDay - 1)}

TimestampInputs == {Ts(n) : n \in 0..MaxSmallTs} \cup EdgeTimestamps

\* "2020-01-01", "2020-01-01T00:00:00Z", "2020-01-01T01:00:00+01:00",
\* "1970-01-01", "1969-12-31T23:59:59Z", "9999-12-31T23:59:59-01:00",
\* "2021-02-30", "2021-02-30T10:00:00Z", "not-a-date", "".
ValidDateTexts ==
    {DateOnly(2020, 1, 1), DateTime(2020, 1, 1, 0, 0, 0, 0),
     DateTime(2020, 1, 1, 1, 0, 0, 60), DateOnly(1970, 1, 1),
     DateTime(1969, 12, 31, 23, 59, 59, 0),
     DateTime(9999, 12, 31, 23, 59, 59, -60)}

InvalidDateTexts ==
    {DateOnly(2021, 2, 30), DateTime(2021, 2, 30, 10, 0, 0, 0), NotADate, EmptyText}

DateTexts == ValidDateTexts \cup InvalidDateTexts

\* The date arguments: NULL, a text, or the pointer get_date() returned.
DateInputs == {NULL} \cup {Some(t) : t \in DateTexts} \cup {release.date}

EolInputs == {NULL, Some(DateOnly(2030, 6, 30)), Some(NotADate)}

StringInputs ==
    {NULL} \cup {Some(x) : x \in {"stable", "development", "unknown", "low", "medium",
                                   "high", "critical", "details", "bogus", "",
                                   "Stable"}}

VersionInputs == {NULL, Some("1.2.0")}

UrlInputs == {NULL, Some("https://example.org/releases/1.2.0")}

\* Description markup and the locale it is set for.
DescriptionInputs == {NULL, Some("<p>Hallo</p>")}

LocaleInputs == {NULL, Some("de")}

FormatStyles ==
    {AS_FORMAT_STYLE_UNKNOWN, AS_FORMAT_STYLE_METAINFO, AS_FORMAT_STYLE_CATALOG}

Contexts == {Context(style, "ALL") : style \in FormatStyles}

\* Item nodes: two well-formed items, a malformed one, and a text node.
MaxItems == 2

ItemInputs == {Item(TRUE, 1, TRUE), Item(TRUE, 2, TRUE), Item(TRUE, 3, FALSE)}

TextNode == Item(FALSE, 0, TRUE)

ItemBlocks == UNION {[1..n -> ItemInputs] : n \in 0..MaxItems}

ObjectInputs == {[id |-> 1], [id |-> 2]}

\* Loads and additions are made while the record holds fewer than MaxSeq
\* issues and artifacts.
MaxSeq == 3

NoAttrs(children) == XmlRelease(NULL, NULL, NULL, NULL, NULL, NULL, children)

\* <description xml:lang="de"><p>Hallo</p></description>
\* <description xml:lang="fr"><p>Salut</p></description>
TwoDescriptions ==
    NoAttrs(<<XmlDescription(Some("de"), NULL, "<p>Hallo</p>"),
              XmlDescription(Some("fr"), NULL, "<p>Salut</p>")>>)

OneDescription == NoAttrs(<<XmlDescription(Some("de"), NULL, "<p>Hallo</p>")>>)

\* <description translatable="no"><p>Hello</p><p xml:lang="de">Hallo</p></description>
FusedDescription ==
    NoAttrs(<<XmlDescription(NULL, Some("no"),
                             ("C" :> "<p>Hello</p>") @@ ("de" :> "<p>Hallo</p>"))>>)

\* Blocks of both kinds between other nodes, an issues block twice.
MixedXml ==
    NoAttrs(<<XmlList("issues", <<Item(TRUE, 1, TRUE), TextNode, Item(TRUE, 3, FALSE)>>),
              XmlOther(FALSE, "text"),
              XmlList("artifacts", <<Item(TRUE, 3, FALSE), Item(TRUE, 2, TRUE)>>),
              XmlOther(TRUE, "custom"),
              XmlUrl(Some("https://example.org/releases/1.2.0")),
              XmlList("issues", <<Item(TRUE, 2, TRUE)>>)>>)

\* The (context, node) pairs given to as_release_load_from_xml.
XmlInputs ==
    {<<Context(AS_FORMAT_STYLE_CATALOG, "ALL"), NoAttrs(<<XmlList(name, b)>>)>> :
         name \in {"issues", "artifacts"}, b \in ItemBlocks}
    \cup {<<Context(AS_FORMAT_STYLE_CATALOG, "ALL"), TwoDescriptions>>,
          <<Context(AS_FORMAT_STYLE_CATALOG, "de"), TwoDescriptions>>,
          <<Context(AS_FORMAT_STYLE_CATALOG, "ALL"), OneDescription>>,
          <<Context(AS_FORMAT_STYLE_METAINFO, "ALL"), FusedDescription>>,
          <<Context(AS_FORMAT_STYLE_METAINFO, "ALL"), MixedXml>>}

MixedYaml ==
    <<YamlEntry("version", Some("1.2.0")),
      YamlEntry("x-custom", Some("1")),
      YamlNested("issues", <<Item(TRUE, 1, TRUE), Item(TRUE, 3, FALSE)>>),
      YamlNested("description", <<YamlEntry("C", Some("<p>Hello</p>")),
                                  YamlEntry("de", Some("<p>Hallo</p>"))>>),
      YamlNested("url", <<YamlEntry("details", Some("https://example.org/releases/1.2.0")),
                          YamlEntry("homepage", Some("https://example.org"))>>),
      YamlNested("artifacts", <<Item(TRUE, 2, TRUE)>>),
      YamlNested("issues", <<Item(TRUE, 2, TRUE)>>)>>

\* A date-eol key without a value.
EmptyEolYaml == <<YamlEntry("date-eol", NULL)>>

\* The (context, node) pairs given to as_release_load_from_yaml.
YamlInputs ==
    {<<Context(AS_FORMAT_STYLE_CATALOG, "ALL"), <<YamlNested(name, b)>>>> :
         name \in {"issues", "artifacts"}, b \in ItemBlocks}
    \cup {<<Context(AS_FORMAT_STYLE_CATALOG, "ALL"), MixedYaml>>,
          <<Context(AS_FORMAT_STYLE_CATALOG, "ALL"), EmptyEolYaml>>}

\* An attribute or entry that is there when the value is not NULL.
Attr(name, value) ==
    IF IsNull(value) THEN <<>> ELSE <<[name |-> name, value |-> Get(value)]>>

Entry(key, value) == IF IsNull(value) THEN <<>> ELSE <<YamlEntry(key, value)>>

Reverse(s) == [i \in 1..Len(s) |-> s[Len(s) + 1 - i]]

TypeTexts == {NULL, Some("development"), Some("bogus")}

UrgencyTexts == {NULL, Some("low"), Some("bogus")}

\* "2021-05-06" and "not-a-date".
LoadDateTexts == {NULL, Some(DateOnly(2021, 5, 6)), Some(NotADate)}

\* "1600000000", "18446744073709551615", "soon", "-5", " 12", "+12",
\* "12abc", "-" and "-18446744073709551615".
LoadTimestampTexts ==
    {NULL, Some(NumU64(Ts(1600000000))), Some(NumU64(Ts(-1))), Some(NumJunk),
     Some(NumText("", "-", Some(Ts(5)), "")), Some(NumText(" ", "", Some(Ts(12)), "")),
     Some(NumText("", "+", Some(Ts(12)), "")),
     Some(NumText("", "", Some(Ts(12)), "abc")), Some(NumText("", "-", NULL, "")),
     Some(NumText("", "-", Some(Ts(-1)), ""))}

\* "1600000000" and "-5".
LoadUnixTimestampTexts ==
    {NULL, Some(NumU64(Ts(1600000000))), Some(NumText("", "-", Some(Ts(5)), ""))}

LoadEolTexts == {NULL, Some(DateOnly(2031, 1, 1))}

LoadVersionTexts == {NULL, Some("2.0.0")}

\* The attributes of a release element as the source text lists them: in
\* one order, or in the reverse one.
AttrList(ty, ve, da, eo, ts, ur, reversed) ==
    LET attrs == Attr("type", ty) \o Attr("version", ve) \o Attr("date", da)
                 \o Attr("date_eol", eo) \o Attr("timestamp", ts)
                 \o Attr("urgency", ur)
    IN  IF reversed THEN Reverse(attrs) ELSE attrs

\* <url>https://example.org/releases/2.0.0</url>
UrlChild == <<XmlUrl(Some("https://example.org/releases/2.0.0"))>>

\* The entries of a release mapping, in one order or in the reverse one.
EntryList(ty, ve, da, eo, ts, ur, reversed) ==
    LET entries == Entry("type", ty) \o Entry("version", ve)
                   \o Entry("unix-timestamp", ts) \o Entry("date", da)
                   \o Entry("date-eol", eo) \o Entry("urgency", ur)
    IN  IF reversed THEN Reverse(entries) ELSE entries

---------------------------------------------------------------------------
(* The calls, one action each.                                             *)

KindToString(kind) ==
    /\ op' = [name |-> "as_release_kind_to_string", kind |-> kind]
    /\ ret' = Some(as_release_kind_to_string(kind))
    /\ diag' = "none"
    /\ UNCHANGED <<release, other, doc>>

KindFromString(kind_str) ==
    /\ op' = [name |-> "as_release_kind_from_string", kind_str |-> kind_str]
    /\ ret' = Some(as_release_kind_from_string(kind_str))
    /\ diag' = "none"
    /\ UNCHANGED <<release, other, doc>>

UrgencyKindToString(urgency_kind) ==
    /\ op' = [name |-> "as_urgency_kind_to_string", urgency_kind |-> urgency_kind]
    /\ ret' = Some(as_urgency_kind_to_string(urgency_kind))
    /\ diag' = "none"
    /\ UNCHANGED <<release, other, doc>>

UrgencyKindFromString(urgency_kind) ==
    /\ op' = [name |-> "as_urgency_kind_from_string", urgency_kind |-> urgency_kind]
    /\ ret' = Some(as_urgency_kind_from_string(urgency_kind))
    /\ diag' = "none"
    /\ UNCHANGED <<release, other, doc>>

UrlKindToString(kind) ==
    /\ op' = [name |-> "as_release_url_kind_to_string", kind |-> kind]
    /\ ret' = Some(as_release_url_kind_to_string(kind))
    /\ diag' = "none"
    /\ UNCHANGED <<release, other, doc>>

UrlKindFromString(kind_str) ==
    /\ op' = [name |-> "as_release_url_kind_from_string", kind_str |-> kind_str]
    /\ ret' = Some(as_release_url_kind_from_string(kind_str))
    /\ diag' = "none"
    /\ UNCHANGED <<release, other, doc>>

GetKind ==
    /\ op' = [name |-> "as_release_get_kind"]
    /\ ret' = Some(release.kind)
    /\ diag' = "none"
    /\ UNCHANGED <<release, other, doc>>

SetKind(kind) ==
    /\ release' = as_release_set_kind(release, kind)
    /\ op' = [name |-> "as_release_set_kind", kind |-> kind]
    /\ ret' = NULL
    /\ diag' = "none"
    /\ UNCHANGED <<other, doc>>

GetVersion ==
    /\ op' = [name |-> "as_release_get_version"]
    /\ ret' = release.version
    /\ diag' = "none"
    /\ UNCHANGED <<release, other, doc>>

SetVersion(version) ==
    /\ release' = as_release_set_version(release, version)
    /\ op' = [name |-> "as_release_set_version", version |-> version]
    /\ ret' = NULL
    /\ diag' = "none"
    /\ UNCHANGED <<other, doc>>

GetTimestamp ==
    /\ op' = [name |-> "as_release_get_timestamp"]
    /\ ret' = Some(release.timestamp)
    /\ diag' = "none"
    /\ UNCHANGED <<release, other, doc>>

\* A timestamp GDateTime cannot hold makes g_date_time_format_iso8601 fail
\* its precondition (a critical diagnostic) and return NULL.
SetTimestamp(timestamp) ==
    /\ release' = as_release_set_timestamp(release, timestamp)
    /\ op' = [name |-> "as_release_set_timestamp", timestamp |-> timestamp]
    /\ ret' = NULL
    /\ diag' = IF IsNull(g_date_time_new_from_unix_utc(timestamp))
               THEN "critical" ELSE "none"
    /\ UNCHANGED <<other, doc>>

GetDate ==
    /\ op' = [name |-> "as_release_get_date"]
    /\ ret' = release.date
    /\ diag' = "none"
    /\ UNCHANGED <<release, other, doc>>

SetDate(date) ==
    /\ release' = as_release_set_date(release, date)
    /\ op' = [name |-> "as_release_set_date", date |-> date]
    /\ ret' = NULL
    /\ diag' = IF IsNull(date) THEN "critical"
               ELSE IF IsNull(as_iso8601_to_datetime(date)) THEN "warning"
               ELSE "none"
    /\ UNCHANGED <<other, doc>>

GetDateEol ==
    /\ op' = [name |-> "as_release_get_date_eol"]
    /\ ret' = release.date_eol
    /\ diag' = "none"
    /\ UNCHANGED <<release, other, doc>>

SetDateEol(date) ==
    /\ release' = as_release_set_date_eol(release, date)
    /\ op' = [name |-> "as_release_set_date_eol", date |-> date]
    /\ ret' = NULL
    /\ diag' = IF IsNull(date) THEN "critical" ELSE "none"
    /\ UNCHANGED <<other, doc>>

GetTimestampEol ==
    /\ op' = [name |-> "as_release_get_timestamp_eol"]
    /\ ret' = Some(as_release_get_timestamp_eol(release))
    /\ diag' = IF ~IsNull(release.date_eol)
                  /\ IsNull(as_iso8601_to_datetime(release.date_eol))
               THEN "warning" ELSE "none"
    /\ UNCHANGED <<release, other, doc>>

SetTimestampEol(timestamp) ==
    /\ release' = as_release_set_timestamp_eol(release, timestamp)
    /\ op' = [name |-> "as_release_set_timestamp_eol", timestamp |-> timestamp]
    /\ ret' = NULL
    /\ diag' = IF timestamp # TsZero /\ IsNull(g_date_time_new_from_unix_utc(timestamp))
               THEN "critical" ELSE "none"
    /\ UNCHANGED <<other, doc>>

GetUrgency ==
    /\ op' = [name |-> "as_release_get_urgency"]
    /\ ret' = Some(release.urgency)
    /\ diag' = "none"
    /\ UNCHANGED <<release, other, doc>>

SetUrgency(urgency) ==
    /\ release' = as_release_set_urgency(release, urgency)
    /\ op' = [name |-> "as_release_set_urgency", urgency |-> urgency]
    /\ ret' = NULL
    /\ diag' = "none"
    /\ UNCHANGED <<other, doc>>

GetUrl(url_kind) ==
    /\ op' = [name |-> "as_release_get_url", url_kind |-> url_kind]
    /\ ret' = as_release_get_url(release, url_kind)
    /\ diag' = "none"
    /\ UNCHANGED <<release, other, doc>>

SetUrl(url_kind, url) ==
    /\ release' = as_release_set_url(release, url_kind, url)
    /\ op' = [name |-> "as_release_set_url", url_kind |-> url_kind, url |-> url]
    /\ ret' = NULL
    /\ diag' = "none"
    /\ UNCHANGED <<other, doc>>

\* A NULL description fails the precondition at line 575.
SetDescription(description, locale) ==
    /\ release' = as_release_set_description(release, description, locale)
    /\ op' = [name |-> "as_release_set_description", description |-> description,
              locale |-> locale]
    /\ ret' = NULL
    /\ diag' = IF IsNull(description) THEN "critical" ELSE "none"
    /\ UNCHANGED <<other, doc>>

SetContext(context) ==
    /\ release' = as_release_set_context(release, context)
    /\ op' = [name |-> "as_release_set_context", context |-> context]
    /\ ret' = NULL
    /\ diag' = "none"
    /\ UNCHANGED <<other, doc>>

SetDescriptionTranslatable(translatable) ==
    /\ release' = as_release_set_description_translatable(release, translatable)
    /\ op' = [name |-> "as_release_set_description_translatable",
              translatable |-> translatable]
    /\ ret' = NULL
    /\ diag' = "none"
    /\ UNCHANGED <<other, doc>>

AddArtifact(artifact) ==
    /\ release' = as_release_add_artifact(release, artifact)
    /\ op' = [name |-> "as_release_add_artifact", artifact |-> artifact]
    /\ ret' = NULL
    /\ diag' = "none"
    /\ UNCHANGED <<other, doc>>

AddIssue(issue) ==
    /\ release' = as_release_add_issue(release, issue)
    /\ op' = [name |-> "as_release_add_issue", issue |-> issue]
    /\ ret' = NULL
    /\ diag' = "none"
    /\ UNCHANGED <<other, doc>>

\* The most severe message of an XML load: a date attribute that does not
\* parse is reported with g_debug.
XmlLoadDiag(node) ==
    IF /\ ~IsNull(as_xml_get_prop_value(node, "date"))
       /\ IsNull(as_iso8601_to_datetime(as_xml_get_prop_value(node, "date")))
    THEN "debug" ELSE "none"

LoadFromXml(ctx, node) ==
    /\ release' = as_release_load_from_xml(release, ctx, node)
    /\ op' = [name |-> "as_release_load_from_xml", ctx |-> ctx, node |-> node,
              fresh |-> FALSE]
    /\ ret' = Some(TRUE)
    /\ diag' = XmlLoadDiag(node)
    /\ UNCHANGED <<other, doc>>

\* The most severe message of a YAML load.  A date-eol entry without a value
\* fails the precondition of as_release_set_date_eol (line 446, called at
\* line 992); a date entry that does not parse and a key that is not known
\* are reported with g_debug.
YamlLoadDiag(node) ==
    IF \E i \in 1..Len(node) :
           StrEq(node[i].key, "date-eol") /\ IsNull(node[i].value)
    THEN "critical"
    ELSE IF \E i \in 1..Len(node) :
                \/ StrEq(node[i].key, "date")
                   /\ IsNull(as_iso8601_to_datetime(node[i].value))
                \/ node[i].key \notin {Some(k) : k \in YamlKeys}
         THEN "debug" ELSE "none"

LoadFromYaml(ctx, node) ==
    /\ release' = as_release_load_from_yaml(release, ctx, node)
    /\ op' = [name |-> "as_release_load_from_yaml", ctx |-> ctx, node |-> node,
              fresh |-> FALSE]
    /\ ret' = Some(TRUE)
    /\ diag' = YamlLoadDiag(node)
    /\ UNCHANGED <<other, doc>>

\* A timestamp GDateTime cannot hold makes g_date_time_format_iso8601 fail
\* its precondition when the style asks for the date.
ToXmlNode(ctx) ==
    /\ doc' = Some([format |-> "xml", ctx |-> ctx,
                    node |-> as_release_to_xml_node(release, ctx)])
    /\ op' = [name |-> "as_release_to_xml_node", ctx |-> ctx]
    /\ ret' = NULL
    /\ diag' = IF /\ release.timestamp # TsZero
                  /\ as_context_get_style(ctx) # AS_FORMAT_STYLE_CATALOG
                  /\ IsNull(g_date_time_new_from_unix_utc(release.timestamp))
               THEN "critical" ELSE "none"
    /\ UNCHANGED <<release, other>>

EmitYaml(ctx) ==
    /\ doc' = Some([format |-> "yaml", ctx |-> ctx,
                    node |-> as_release_emit_yaml(release, ctx)])
    /\ op' = [name |-> "as_release_emit_yaml", ctx |-> ctx]
    /\ ret' = NULL
    /\ diag' = IF /\ release.timestamp # TsZero
                  /\ as_context_get_style(ctx) # AS_FORMAT_STYLE_CATALOG
                  /\ IsNull(g_date_time_new_from_unix_utc(release.timestamp))
               THEN "critical" ELSE "none"
    /\ UNCHANGED <<release, other>>

\* as_release_new, then as_release_load_from_xml of the document written
\* last, under the context it was written with: other is the fresh record.
ReloadFromXml ==
    /\ ~IsNull(doc)
    /\ Get(doc).format = "xml"
    /\ other' = as_release_load_from_xml(as_release_init, Get(doc).ctx, Get(doc).node)
    /\ op' = [name |-> "as_release_load_from_xml", ctx |-> Get(doc).ctx,
              node |-> Get(doc).node, fresh |-> TRUE]
    /\ ret' = Some(TRUE)
    /\ diag' = XmlLoadDiag(Get(doc).node)
    /\ UNCHANGED <<release, doc>>

\* The same with as_release_load_from_yaml.
ReloadFromYaml ==
    /\ ~IsNull(doc)
    /\ Get(doc).format = "yaml"
    /\ other' = as_release_load_from_yaml(as_release_init, Get(doc).ctx, Get(doc).node)
    /\ op' = [name |-> "as_release_load_from_yaml", ctx |-> Get(doc).ctx,
              node |-> Get(doc).node, fresh |-> TRUE]
    /\ ret' = Some(TRUE)
    /\ diag' = YamlLoadDiag(Get(doc).node)
    /\ UNCHANGED <<release, doc>>

---------------------------------------------------------------------------
(* The enum codecs, with the kind and urgency accessors.                   *)

NextCodec ==
    \/ \E k \in AsReleaseKind : KindToString(k)
    \/ \E x \in StringInputs : KindFromString(x)
    \/ \E u \in AsUrgencyKind : UrgencyKindToString(u)
    \/ \E x \in StringInputs : UrgencyKindFromString(x)
    \/ \E k \in AsReleaseUrlKind : UrlKindToString(k)
    \/ \E x \in StringInputs : UrlKindFromString(x)
    \/ \E k \in AsReleaseKind : SetKind(k)
    \/ GetKind
    \/ \E u \in AsUrgencyKind : SetUrgency(u)
    \/ GetUrgency

SpecCodec == Init /\ [][NextCodec]_vars

(* The timestamp, date and end-of-life mutators and accessors.             *)

NextDate ==
    \/ \E t \in TimestampInputs : SetTimestamp(t)
    \/ GetTimestamp
    \/ \E x \in DateInputs : SetDate(x)
    \/ GetDate
    \/ \E x \in EolInputs : SetDateEol(x)
    \/ GetDateEol
    \/ \E t \in {TsZero, Ts(1700000000)} : SetTimestampEol(t)
    \/ GetTimestampEol

SpecDate == Init /\ [][NextDate]_vars

(* A record is built with the mutators, written once, and read back into   *)
(* a fresh record.                                                         *)

NextSerial ==
    \/ IsNull(doc) /\ \E k \in AsReleaseKind : SetKind(k)
    \/ IsNull(doc) /\ \E v \in VersionInputs : SetVersion(v)
    \/ IsNull(doc) /\ \E t \in TimestampInputs : SetTimestamp(t)
    \/ IsNull(doc) /\ \E x \in DateInputs : SetDate(x)
    \/ IsNull(doc) /\ \E x \in EolInputs : SetDateEol(x)
    \/ IsNull(doc) /\ \E u \in AsUrgencyKind : SetUrgency(u)
    \/ IsNull(doc) /\ \E k \in AsReleaseUrlKind, u \in UrlInputs : SetUrl(k, u)
    \/ IsNull(doc) /\ \E ctx \in Contexts : ToXmlNode(ctx)
    \/ IsNull(doc) /\ \E ctx \in Contexts : EmitYaml(ctx)
    \/ ReloadFromXml
    \/ ReloadFromYaml

SpecSerial == Init /\ [][NextSerial]_vars

(* Documents with descriptions, issues and artifacts are loaded into a     *)
(* record that already holds some.                                         *)

Room == Len(release.issues) + Len(release.artifacts) < MaxSeq

NextChildren ==
    \/ Room /\ \E d \in DescriptionInputs, l \in LocaleInputs : SetDescription(d, l)
    \/ Room /\ \E c \in {NULL} \cup {Some(ctx) : ctx \in Contexts} : SetContext(c)
    \/ Room /\ \E t \in BOOLEAN : SetDescriptionTranslatable(t)
    \/ Room /\ \E i \in ObjectInputs : AddIssue(i)
    \/ Room /\ \E a \in ObjectInputs : AddArtifact(a)
    \/ Room /\ \E in \in XmlInputs : LoadFromXml(in[1], in[2])
    \/ Room /\ \E in \in YamlInputs : LoadFromYaml(in[1], in[2])

SpecChildren == Init /\ [][NextChildren]_vars

(* A record is given prior content with the mutators and then loaded from  *)
(* a node with attributes and a url child, once.                           *)

Unloaded == IsNull(release.context)

NextLoad ==
    \/ Unloaded /\ \E k \in AsReleaseKind : SetKind(k)
    \/ Unloaded /\ SetUrgency(AS_URGENCY_KIND_HIGH)
    \/ Unloaded /\ \E v \in VersionInputs : SetVersion(v)
    \/ Unloaded /\ SetTimestamp(Ts(1700000000))
    \/ Unloaded /\ SetDate(Some(DateOnly(2020, 1, 1)))
    \/ Unloaded /\ SetDateEol(Some(DateOnly(2030, 6, 30)))
    \/ Unloaded /\ \E ty \in TypeTexts, ve \in LoadVersionTexts, da \in LoadDateTexts,
                       eo \in LoadEolTexts, ts \in LoadTimestampTexts,
                       ur \in UrgencyTexts, reversed \in BOOLEAN :
                       LoadFromXml(Context(AS_FORMAT_STYLE_METAINFO, "ALL"),
                                   XmlElement(AttrList(ty, ve, da, eo, ts, ur, reversed),
                                              UrlChild))
    \/ Unloaded /\ \E ty \in TypeTexts, ve \in LoadVersionTexts, da \in LoadDateTexts,
                       eo \in LoadEolTexts,
                       ts \in LoadUnixTimestampTexts,
                       ur \in UrgencyTexts, reversed \in BOOLEAN :
                       LoadFromYaml(Context(AS_FORMAT_STYLE_CATALOG, "ALL"),
                                    EntryList(ty, ve, da, eo, ts, ur, reversed))

SpecLoad == Init /\ [][NextLoad]_vars

---------------------------------------------------------------------------
(* Properties.                                                             *)

\* The timestamp a date text parses to, as an option.
ParsedTimestamp(date) ==
    LET time == as_iso8601_to_datetime(date)
    IN  IF IsNull(time) THEN NULL ELSE Some(g_date_time_to_unix(Get(time)))

\* The timestamps GDateTime can hold: the signed reading lies in
\* -62135596800 .. 253402300799 (0001-01-01T00:00:00Z .. 9999-12-31T23:59:59Z).
InDateRange(ts) ==
    /\ ts.era \in -6..21
    /\ ts.era * DaysPerEra + ts.doe >= MinDay
    /\ ts.era * DaysPerEra + ts.doe <= MaxDay

EpochText == DateTime(1970, 1, 1, 0, 0, 0, 0)

DateMatchesTimestamp ==
    ~IsNull(release.date) => ParsedTimestamp(release.date) = Some(release.timestamp)

LastMutatorWins ==
    /\ op'.name = "as_release_set_timestamp" =>
          /\ release'.timestamp = op'.timestamp
          /\ release'.date = g_date_time_format_iso8601(
                                 g_date_time_new_from_unix_utc(op'.timestamp))
    /\ (op'.name = "as_release_set_date" /\ ~IsNull(ParsedTimestamp(op'.date))) =>
          /\ release'.timestamp = Get(ParsedTimestamp(op'.date))
          /\ release'.date = op'.date
    /\ (op'.name = "as_release_set_date" /\ IsNull(ParsedTimestamp(op'.date))) =>
          /\ release'.timestamp = release.timestamp
          /\ release'.date = release.date
    /\ op'.name \notin {"as_release_set_timestamp", "as_release_set_date"} =>
          /\ release'.timestamp = release.timestamp
          /\ release'.date = release.date

\* C1: from a fresh release, after any sequence of set_timestamp and set_date
\* calls, a set date parses to exactly the stored timestamp, and the last
\* successful of the two mutators determines both fields: set_timestamp (t)
\* leaves timestamp t and date the formatting of t, a set_date (text) that
\* parses leaves date the text and timestamp its reading, and a set_date that
\* does not parse changes neither.
C1_DateTimestampInSync == []DateMatchesTimestamp /\ [][LastMutatorWins]_vars

\* C1 witness: set_timestamp overwrote the fields a set_date had set before,
\* and was then followed by a rejected set_date.
C1_Witness ==
    /\ op.name = "as_release_set_date"
    /\ op.date = Some(NotADate)
    /\ release.timestamp = Ts(1700000000)
    /\ release.date = Some(DateTime(2023, 11, 14, 22, 13, 20, 0))

SetTimestampZero == op'.name = "as_release_set_timestamp" /\ op'.timestamp = TsZero

\* C2 as stated: set_timestamp (0) leaves date as it was before the call.
C2_Original == [][SetTimestampZero => release'.date = release.date]_vars

\* C2 amended: set_timestamp (0) stores timestamp 0 and replaces date, whatever
\* it was before the call, by the formatting of the epoch,
\* "1970-01-01T00:00:00Z".
C2_SetTimestampZeroWritesEpoch ==
    [][SetTimestampZero =>
          release'.timestamp = TsZero /\ release'.date = Some(EpochText)]_vars

\* C2 witness: set_timestamp (0) has run and date is the epoch text.
C2_Witness ==
    /\ op.name = "as_release_set_timestamp"
    /\ op.timestamp = TsZero
    /\ release.date = Some(EpochText)
    /\ ~IsNull(release.date_eol)

\* C3: set_date with a text that does not parse as ISO-8601 leaves date,
\* timestamp and every other field unchanged and returns normally, raising
\* only a warning.
C3_InvalidDateRejected ==
    [][(/\ op'.name = "as_release_set_date"
        /\ ~IsNull(op'.date)
        /\ IsNull(as_iso8601_to_datetime(op'.date)))
       => (release' = release /\ diag' = "warning" /\ ret' = NULL)]_vars

\* C3 witness: set_date ("not-a-date") returned with a warning on a record
\* whose date had been set.
C3_Witness ==
    /\ op.name = "as_release_set_date"
    /\ op.date = Some(NotADate)
    /\ diag = "warning"
    /\ release.date = Some(DateOnly(2020, 1, 1))
    /\ release.timestamp = Ts(1577836800)

\* C7 as stated: url_kind_from_string returns Details for NULL, for "" and for
\* "details", and Unknown for every other string.
C7_Original ==
    op.name = "as_release_url_kind_from_string" =>
        ret = IF op.kind_str \in {NULL, Some(""), Some("details")}
              THEN Some(AS_RELEASE_URL_KIND_DETAILS)
              ELSE Some(AS_RELEASE_URL_KIND_UNKNOWN)

\* C7 amended: url_kind_from_string returns Details for NULL and for "details",
\* and Unknown for every other string, the empty string included.
C7_UrlKindDefault ==
    op.name = "as_release_url_kind_from_string" =>
        ret = IF op.kind_str \in {NULL, Some("details")}
              THEN Some(AS_RELEASE_URL_KIND_DETAILS)
              ELSE Some(AS_RELEASE_URL_KIND_UNKNOWN)

\* C7 witness: the call with NULL returned Details.
C7_Witness ==
    /\ op.name = "as_release_url_kind_from_string"
    /\ op.kind_str = NULL
    /\ ret = Some(AS_RELEASE_URL_KIND_DETAILS)

KindNames == {"stable", "development", "unknown"}

UrgencyNames == {"low", "medium", "high", "critical", "unknown"}

UrlKindNames == {"details", "unknown"}

\* C9: each codec round-trips every defined value, from_string (to_string (k))
\* = k, and maps every non-empty string that is no name of a value to Unknown.
C9_CodecRoundTrip ==
    /\ op.name = "as_release_kind_from_string" =>
          /\ \A k \in AsReleaseKind :
                op.kind_str = Some(as_release_kind_to_string(k)) => ret = Some(k)
          /\ (~IsNull(op.kind_str) /\ Get(op.kind_str) \notin KindNames \cup {""})
                => ret = Some(AS_RELEASE_KIND_UNKNOWN)
    /\ op.name = "as_urgency_kind_from_string" =>
          /\ \A u \in AsUrgencyKind :
                op.urgency_kind = Some(as_urgency_kind_to_string(u)) => ret = Some(u)
          /\ (~IsNull(op.urgency_kind)
              /\ Get(op.urgency_kind) \notin UrgencyNames \cup {""})
                => ret = Some(AS_URGENCY_KIND_UNKNOWN)
    /\ op.name = "as_release_url_kind_from_string" =>
          /\ \A k \in AsReleaseUrlKind :
                op.kind_str = Some(as_release_url_kind_to_string(k)) => ret = Some(k)
          /\ (~IsNull(op.kind_str) /\ Get(op.kind_str) \notin UrlKindNames \cup {""})
                => ret = Some(AS_RELEASE_URL_KIND_UNKNOWN)

\* C9 witness: "development" was decoded to the development kind.
C9_Witness ==
    /\ op.name = "as_release_kind_from_string"
    /\ op.kind_str = Some(as_release_kind_to_string(AS_RELEASE_KIND_DEVELOPMENT))
    /\ ret = Some(AS_RELEASE_KIND_DEVELOPMENT)

\* set_date (get_date ()) right after set_timestamp (t), t > 0.
ReparseAfterSetTimestamp ==
    /\ op.name = "as_release_set_timestamp"
    /\ op.timestamp # TsZero
    /\ op'.name = "as_release_set_date"
    /\ op'.date = release.date

DateAccepted == diag' = "none" /\ release'.date = op'.date

\* C10 as stated: for all t > 0, after set_timestamp (t) the string get_date ()
\* returns is accepted by set_date, and set_date with it leaves timestamp t.
C10_Original ==
    [][ReparseAfterSetTimestamp =>
          DateAccepted /\ release'.timestamp = op.timestamp]_vars

\* C10 amended: the same for all t > 0 that GDateTime can hold, those whose
\* signed reading lies in -62135596800 .. 253402300799; for any other t
\* set_timestamp leaves date NULL, which set_date rejects.
C10_TimestampDateRoundTrip ==
    [][ReparseAfterSetTimestamp =>
          IF InDateRange(op.timestamp)
          THEN DateAccepted /\ release'.timestamp = op.timestamp
          ELSE IsNull(release.date) /\ diag' = "critical" /\ release' = release]_vars

\* C10 witness: set_date took the text set_timestamp (1700000000) had
\* produced, and timestamp is 1700000000.
C10_Witness ==
    /\ op.name = "as_release_set_date"
    /\ op.date = Some(DateTime(2023, 11, 14, 22, 13, 20, 0))
    /\ release.date = op.date
    /\ release.timestamp = Ts(1700000000)
    /\ diag = "none"


---------------------------------------------------------------------------
(* Written documents.                                                      *)

\* The value of the first entry of a YAML mapping with the key, NULL when
\* there is none.
YamlValue(node, key) ==
    IF \E i \in 1..Len(node) : node[i].key = Some(key)
    THEN node[CHOOSE i \in 1..Len(node) :
                  /\ node[i].key = Some(key)
                  /\ \A j \in 1..(i - 1) : node[j].key # Some(key)].value
    ELSE NULL

\* The numeric instant field of a document: the timestamp attribute or the
\* unix-timestamp entry.
WrittenNumeric(d) ==
    IF d.format = "xml" THEN d.node.timestamp ELSE YamlValue(d.node, "unix-timestamp")

\* The date attribute or the date entry.
WrittenDate(d) ==
    IF d.format = "xml" THEN d.node.date ELSE YamlValue(d.node, "date")

JustEmitted == op.name \in {"as_release_to_xml_node", "as_release_emit_yaml"}

ReadBack ==
    /\ op.name \in {"as_release_load_from_xml", "as_release_load_from_yaml"}
    /\ op.fresh

\* The canonical text of a timestamp: the UTC date and time that denotes it.
IsCanonicalText(date, ts) ==
    /\ ~IsNull(date)
    /\ Get(date).form = "datetime"
    /\ Get(date).off = 0
    /\ ParsedTimestamp(date) = Some(ts)

\* C4 as stated: the record read back from the written document equals the
\* original in kind, version, timestamp, date, date_eol, urgency and
\* url_details, in either format and every style.
C4_Original ==
    ReadBack =>
        \A f \in {"kind", "version", "timestamp", "date", "date_eol", "urgency",
                  "url_details"} : other[f] = release[f]

\* C4 (amended): the record read back equals the original in kind, version,
\* date_eol, urgency and url_details.  The timestamp is carried when the
\* style's field can spell it: in catalog style when it is at most 2^63 - 1
\* (a larger one is read back as 2^63 - 1), in the other styles when
\* GDateTime can hold it (another one is read back as 0).  The date string is
\* not carried: it is NULL after a YAML or a catalog load, and after a load
\* of XML of another style it is the canonical text of the timestamp, NULL
\* for a timestamp of 0 or one GDateTime cannot hold.
C4_RoundTripFields ==
    ReadBack =>
        LET d       == Get(doc)
            catalog == as_context_get_style(d.ctx) = AS_FORMAT_STYLE_CATALOG
            ts      == release.timestamp
            carried == IF catalog THEN ts.era >= 0 ELSE InDateRange(ts)
        IN  /\ \A f \in {"kind", "version", "date_eol", "urgency", "url_details"} :
                   other[f] = release[f]
            /\ other.timestamp = IF carried THEN ts
                                 ELSE IF catalog THEN LONG_MAX ELSE TsZero
            /\ IF d.format = "xml" /\ ~catalog /\ ts # TsZero /\ InDateRange(ts)
               THEN IsCanonicalText(other.date, ts)
               ELSE IsNull(other.date)

\* A record with every field set is read back from catalog XML: the
\* timestamp is carried and the date string is not.
C4_Witness ==
    /\ ReadBack
    /\ Get(doc).format = "xml"
    /\ as_context_get_style(Get(doc).ctx) = AS_FORMAT_STYLE_CATALOG
    /\ release.kind = AS_RELEASE_KIND_DEVELOPMENT
    /\ ~IsNull(release.version)
    /\ ~IsNull(release.date_eol)
    /\ ~IsNull(release.url_details)
    /\ release.urgency = AS_URGENCY_KIND_HIGH
    /\ release.timestamp = Ts(1700000000)
    /\ other.timestamp = Ts(1700000000)
    /\ ~IsNull(release.date)
    /\ IsNull(other.date)


\* C8: a written document holds at most one of the two instant fields.  For
\* a timestamp of 0 it holds neither; otherwise catalog style writes the
\* numeral of the timestamp and no date, and every other style writes no
\* numeral, and for the date the canonical text of the timestamp (no date
\* can be written for a timestamp GDateTime cannot hold).
C8_OneInstantField ==
    JustEmitted =>
        LET d       == Get(doc)
            catalog == as_context_get_style(d.ctx) = AS_FORMAT_STYLE_CATALOG
            ts      == release.timestamp
        IN  /\ IsNull(WrittenNumeric(d)) \/ IsNull(WrittenDate(d))
            /\ ts = TsZero => IsNull(WrittenNumeric(d)) /\ IsNull(WrittenDate(d))
            /\ ts # TsZero /\ catalog =>
                   WrittenNumeric(d) = Some(NumU64(ts)) /\ IsNull(WrittenDate(d))
            /\ ts # TsZero /\ ~catalog =>
                   /\ IsNull(WrittenNumeric(d))
                   /\ IF InDateRange(ts) THEN IsCanonicalText(WrittenDate(d), ts)
                      ELSE IsNull(WrittenDate(d))

\* A record whose date string is set is written as catalog XML: the
\* timestamp attribute is there and the date attribute is not.
C8_Witness ==
    /\ op.name = "as_release_to_xml_node"
    /\ as_context_get_style(op.ctx) = AS_FORMAT_STYLE_CATALOG
    /\ release.timestamp = Ts(1700000000)
    /\ ~IsNull(release.date)
    /\ Get(doc).node.timestamp = Some(NumU64(Ts(1700000000)))
    /\ IsNull(Get(doc).node.date)

---------------------------------------------------------------------------
(* Loaded children.                                                        *)

LoadedInto ==
    /\ op.name \in {"as_release_load_from_xml", "as_release_load_from_yaml"}
    /\ ~op.fresh

\* Whether the children of a release node hold a description element of
\* the language with the content.
HasDescription(children, lang, content) ==
    \E i \in 1..Len(children) :
        children[i] = XmlDescription(Some(lang), NULL, content)

\* C5 as stated: after a catalog-style XML load, under a context selecting
\* every locale, of a node with sibling descriptions tagged de and fr, the
\* table holds both entries and a catalog-style emission writes both nodes
\* with their content.
C5_Original ==
    (/\ LoadedInto
     /\ op.name = "as_release_load_from_xml"
     /\ as_context_get_style(op.ctx) = AS_FORMAT_STYLE_CATALOG
     /\ op.ctx.locale = "ALL"
     /\ HasDescription(op.node.children, "de", "<p>Hallo</p>")
     /\ HasDescription(op.node.children, "fr", "<p>Salut</p>"))
    => /\ {"de", "fr"} \subseteq DOMAIN release.description
       /\ release.description["de"] = "<p>Hallo</p>"
       /\ release.description["fr"] = "<p>Salut</p>"
       /\ LET written == as_release_to_xml_node(release, op.ctx).children
          IN  /\ HasDescription(written, "de", "<p>Hallo</p>")
              /\ HasDescription(written, "fr", "<p>Salut</p>")

\* The item nodes of all blocks of the name among the children of a release
\* node (xml) or the entries of a release mapping, in document order.
RECURSIVE BlockItems(_, _, _)
BlockItems(children, name, xml) ==
    IF children = <<>> THEN <<>>
    ELSE LET c       == Head(children)
             isBlock == IF xml THEN c.element /\ c.name = name
                        ELSE c.key = Some(name)
         IN  (IF isBlock THEN c.children ELSE <<>>)
             \o BlockItems(Tail(children), name, xml)

\* The objects of the items whose own load succeeds, in order.  Of the
\* children of an XML block only the elements are items.
Succeeded(items, xml) ==
    LET Good(n) == (xml => n.element) /\ n.ok
        good    == SelectSeq(items, Good)
    IN  [i \in 1..Len(good) |-> [id |-> good[i].id]]

\* C6: a load, of XML or YAML, leaves in issues what it held before followed
\* by the objects of exactly the items of the issues blocks whose own load
\* succeeded, in document order, the same for artifacts, and returns TRUE.
C6_AppendSucceeded ==
    [][(/\ op'.name \in {"as_release_load_from_xml", "as_release_load_from_yaml"}
        /\ ~op'.fresh)
       => LET xml      == op'.name = "as_release_load_from_xml"
              children == IF xml THEN op'.node.children ELSE op'.node
          IN  /\ release'.issues =
                     release.issues
                     \o Succeeded(BlockItems(children, "issues", xml), xml)
              /\ release'.artifacts =
                     release.artifacts
                     \o Succeeded(BlockItems(children, "artifacts", xml), xml)
              /\ ret' = Some(TRUE)]_vars

\* An issues block with a malformed item before a well-formed one has been
\* loaded from XML into a record that held an issue: the well-formed one
\* follows the prior one.
C6_Witness ==
    /\ LoadedInto
    /\ op.name = "as_release_load_from_xml"
    /\ op.node = NoAttrs(<<XmlList("issues", <<Item(TRUE, 3, FALSE), Item(TRUE, 1, TRUE)>>)>>)
    /\ release.issues = <<[id |-> 2], [id |-> 1]>>
    /\ ret = Some(TRUE)

---------------------------------------------------------------------------
(* The end-of-life date.                                                   *)

\* C11: get_timestamp_eol returns 0 while date_eol is unset; set_timestamp
\* and set_date leave date_eol as it is; and set_timestamp_eol (0) changes
\* no field of the record, so that it neither sets nor clears date_eol.
C11_EolUntouched ==
    /\ [](op.name = "as_release_get_timestamp_eol" /\ IsNull(release.date_eol)
          => ret = Some(TsZero))
    /\ [][/\ op'.name \in {"as_release_set_timestamp", "as_release_set_date"}
             => release'.date_eol = release.date_eol
          /\ (op'.name = "as_release_set_timestamp_eol" /\ op'.timestamp = TsZero)
             => release' = release]_vars

\* set_timestamp_eol (0) was called on a record with a timestamp and no
\* end-of-life date: date_eol is still unset.
C11_Witness ==
    /\ op.name = "as_release_set_timestamp_eol"
    /\ op.timestamp = TsZero
    /\ release.timestamp = Ts(1700000000)
    /\ IsNull(release.date_eol)
    /\ as_release_get_timestamp_eol(release) = TsZero

---------------------------------------------------------------------------
(* Loads of attributes and scalar entries.                                 *)

\* The step is a load into release.
LoadStep ==
    /\ op'.name \in {"as_release_load_from_xml", "as_release_load_from_yaml"}
    /\ ~op'.fresh

\* The text the loaded node gives for a field, NULL when it gives none: the
\* attribute of an XML node, the entry of a YAML mapping.
NodeText(o, attribute, key) ==
    IF o.name = "as_release_load_from_xml" THEN o.node[attribute]
    ELSE YamlValue(o.node, key)

MalformedType(o) ==
    /\ ~IsNull(NodeText(o, "type", "type"))
    /\ Get(NodeText(o, "type", "type")) \notin KindNames

MalformedUrgency(o) ==
    /\ ~IsNull(NodeText(o, "urgency", "urgency"))
    /\ Get(NodeText(o, "urgency", "urgency")) \notin UrgencyNames

\* C12 as stated: a load that meets a type or urgency that is no recognized
\* name leaves kind or urgency at the value from before the load.
C12_Original ==
    [][LoadStep =>
          /\ MalformedType(op') => release'.kind = release.kind
          /\ MalformedUrgency(op') => release'.urgency = release.urgency]_vars

\* C12 (amended): a load that meets a type or urgency that is no recognized
\* name sets kind or urgency to the Unknown value of its enumeration, whatever
\* it held before, and the other fields are loaded all the same: version and
\* date_eol are taken from the node, and a well-formed type or urgency beside
\* the malformed one is decoded.
C12_MalformedEnumIsUnknown ==
    [][(LoadStep /\ (MalformedType(op') \/ MalformedUrgency(op'))) =>
          LET ty == NodeText(op', "type", "type")
              ur == NodeText(op', "urgency", "urgency")
              ve == NodeText(op', "version", "version")
              eo == NodeText(op', "date_eol", "date-eol")
          IN  /\ MalformedType(op') => release'.kind = AS_RELEASE_KIND_UNKNOWN
              /\ MalformedUrgency(op') => release'.urgency = AS_URGENCY_KIND_UNKNOWN
              /\ ty = Some("development")
                 => release'.kind = AS_RELEASE_KIND_DEVELOPMENT
              /\ ur = Some("low") => release'.urgency = AS_URGENCY_KIND_LOW
              /\ ~IsNull(ve) => release'.version = ve
              /\ ~IsNull(eo) => release'.date_eol = eo
              /\ ret' = Some(TRUE)]_vars

\* An XML node with type "bogus", urgency "low" and a date_eol was loaded:
\* the kind is Unknown and the attributes after type are in the record.
C12_Witness ==
    /\ LoadedInto
    /\ op.name = "as_release_load_from_xml"
    /\ op.node.type = Some("bogus")
    /\ op.node.urgency = Some("low")
    /\ op.node.date_eol = Some(DateOnly(2031, 1, 1))
    /\ release.kind = AS_RELEASE_KIND_UNKNOWN
    /\ release.urgency = AS_URGENCY_KIND_LOW
    /\ release.date_eol = op.node.date_eol


\* The date attribute of the node is there and is no valid date.
BadDate(node) == ~IsNull(node.date) /\ IsNull(ParsedTimestamp(node.date))

\* The text of the last url child of a node, NULL without one.
RECURSIVE LastUrl(_, _)
LastUrl(children, prior) ==
    IF children = <<>> THEN prior
    ELSE LastUrl(Tail(children),
                 IF Head(children).element /\ Head(children).name = "url"
                 THEN Head(children).value ELSE prior)

\* C13: an XML load returns TRUE.  When the date attribute is there and is no
\* valid date, the load reports it with a debug message and leaves date as
\* it was; the timestamp is as it was unless the node has a timestamp
\* attribute, which is read; date_eol and urgency are read and the children
\* are processed.
C13_BadDateDiscarded ==
    [][(op'.name = "as_release_load_from_xml" /\ ~op'.fresh) =>
          LET node == op'.node
          IN  /\ ret' = Some(TRUE)
              /\ BadDate(node) =>
                    /\ diag' = "debug"
                    /\ release'.date = release.date
                    /\ release'.timestamp =
                           IF IsNull(node.timestamp) THEN release.timestamp
                           ELSE atol(Get(node.timestamp))
                    /\ release'.date_eol =
                           IF IsNull(node.date_eol) THEN release.date_eol
                           ELSE node.date_eol
                    /\ release'.urgency =
                           IF IsNull(node.urgency) THEN release.urgency
                           ELSE as_urgency_kind_from_string(node.urgency)
                    /\ release'.url_details =
                           LastUrl(node.children, release.url_details)]_vars

\* A node with date "not-a-date", a date_eol, an urgency and a url child was
\* loaded into a record whose date had been set to "2020-01-01": date and
\* timestamp are those of "2020-01-01" and the rest of the node is loaded.
C13_Witness ==
    /\ LoadedInto
    /\ op.name = "as_release_load_from_xml"
    /\ op.node.date = Some(NotADate)
    /\ IsNull(op.node.timestamp)
    /\ release.date = Some(DateOnly(2020, 1, 1))
    /\ release.timestamp = Ts(1577836800)
    /\ op.node.date_eol = Some(DateOnly(2031, 1, 1))
    /\ release.date_eol = op.node.date_eol
    /\ release.urgency = AS_URGENCY_KIND_LOW
    /\ ~IsNull(release.url_details)
    /\ ret = Some(TRUE)
    /\ diag = "debug"


\* The node has a valid date attribute and a timestamp attribute.
BothInstants(node) ==
    /\ ~IsNull(node.date)
    /\ ~IsNull(ParsedTimestamp(node.date))
    /\ ~IsNull(node.timestamp)

\* The text spells an integer: digits after an optional sign, nothing else.
IsInteger(text) == text.lead = "" /\ text.tail = "" /\ ~IsNull(text.digits)

\* C14 as stated: after an XML load of a node with a valid date attribute and
\* a timestamp attribute that spells an integer, the timestamp, an unsigned
\* number, is that integer.
C14_Original ==
    [][(/\ op'.name = "as_release_load_from_xml" /\ ~op'.fresh
        /\ BothInstants(op'.node)
        /\ IsInteger(Get(op'.node.timestamp)))
       => LET text == Get(op'.node.timestamp)
          IN  /\ text.sign = "-" => Get(text.digits) = TsZero
              /\ release'.timestamp = Get(text.digits)]_vars

\* C14 (amended): after an XML load of a node with a valid date attribute and
\* a timestamp attribute, the timestamp is what atol reads from the
\* timestamp attribute, not what the date denotes.  Blanks at the start and
\* whatever follows the digits do not count.  The timestamp is 0 when no
\* digit follows the optional sign.  For digits spelling n <= 2^63 - 1 it is
\* n, and 2^64 - n after a "-" sign.  For digits spelling more than 2^63 - 1,
\* where C defines no result, it is what the C library of the build gives:
\* 2^63 - 1, and 2^63 after a "-" sign.  The date field holds the text of the
\* date attribute.  The node with its attributes listed in the reverse
\* order is another node and loads to the same record.
C14_TimestampAttrWins ==
    [][(/\ op'.name = "as_release_load_from_xml" /\ ~op'.fresh
        /\ BothInstants(op'.node))
       => LET node     == op'.node
              text     == Get(node.timestamp)
              reversed == [node EXCEPT !.order = Reverse(node.order)]
          IN  /\ release'.timestamp =
                     IF IsNull(text.digits) THEN TsZero
                     ELSE IF Get(text.digits).era >= 0
                          THEN IF text.sign = "-" THEN TsNeg(Get(text.digits))
                               ELSE Get(text.digits)
                          ELSE IF text.sign = "-" THEN LONG_MIN ELSE LONG_MAX
              /\ release'.date = node.date
              /\ reversed.order # node.order
              /\ release' = as_release_load_from_xml(release, op'.ctx, reversed)]_vars

\* A node that lists timestamp "-5" before date "2021-05-06" was loaded: the
\* timestamp is 2^64 - 5 and the date is "2021-05-06".
C14_Witness ==
    /\ LoadedInto
    /\ op.name = "as_release_load_from_xml"
    /\ \E i, j \in 1..Len(op.node.order) :
           i < j /\ op.node.order[i] = "timestamp" /\ op.node.order[j] = "date"
    /\ op.node.date = Some(DateOnly(2021, 5, 6))
    /\ op.node.timestamp = Some(NumText("", "-", Some(Ts(5)), ""))
    /\ release.timestamp = Ts(-5)
    /\ release.date = Some(DateOnly(2021, 5, 6))


\* The place of the entry with the key in a YAML mapping, 0 without one.
YamlIndex(node, key) ==
    IF \E i \in 1..Len(node) : node[i].key = Some(key)
    THEN CHOOSE i \in 1..Len(node) : node[i].key = Some(key)
    ELSE 0

\* C15: the loaders write timestamp and leave date alone.  A YAML load
\* leaves date as it was, and sets timestamp from its unix-timestamp entry
\* or its valid date entry, from the later of the two when it has both.  An
\* XML load of a node with a timestamp attribute and no valid date attribute
\* sets timestamp from the attribute and leaves date as it was.
C15_LoadersLeaveDate ==
    [][/\ (op'.name = "as_release_load_from_yaml" /\ ~op'.fresh) =>
              LET node  == op'.node
                  iu    == YamlIndex(node, "unix-timestamp")
                  id    == YamlIndex(node, "date")
                  valid == id # 0 /\ ~IsNull(ParsedTimestamp(node[id].value))
              IN  /\ release'.date = release.date
                  /\ release'.timestamp =
                         IF iu # 0 /\ (~valid \/ iu > id)
                         THEN atol(Get(node[iu].value))
                         ELSE IF valid THEN Get(ParsedTimestamp(node[id].value))
                         ELSE release.timestamp
       /\ (/\ op'.name = "as_release_load_from_xml" /\ ~op'.fresh
           /\ ~IsNull(op'.node.timestamp)
           /\ (IsNull(op'.node.date) \/ BadDate(op'.node))) =>
              /\ release'.date = release.date
              /\ release'.timestamp = atol(Get(op'.node.timestamp))]_vars

\* A mapping with unix-timestamp 1600000000 was loaded into a record whose
\* date had been set to "2020-01-01": the date still says so.
C15_Witness ==
    /\ LoadedInto
    /\ op.name = "as_release_load_from_yaml"
    /\ YamlValue(op.node, "unix-timestamp") = Some(NumU64(Ts(1600000000)))
    /\ IsNull(YamlValue(op.node, "date"))
    /\ release.timestamp = Ts(1600000000)
    /\ release.date = Some(DateOnly(2020, 1, 1))
    /\ ParsedTimestamp(release.date) # Some(release.timestamp)


\* C16: an XML load treats an absent attribute per field.  Without a version
\* attribute the version is unset after the load, whatever it was; without a
\* type, date, date_eol or urgency attribute the kind, date, date_eol or
\* urgency is as before the load; the timestamp is as before the load when
\* the node has no timestamp attribute and no valid date attribute.
C16_AbsentAttributes ==
    [][(op'.name = "as_release_load_from_xml" /\ ~op'.fresh) =>
          LET node == op'.node
          IN  /\ IsNull(node.version)  => IsNull(release'.version)
              /\ IsNull(node.type)     => release'.kind = release.kind
              /\ IsNull(node.date)     => release'.date = release.date
              /\ IsNull(node.date_eol) => release'.date_eol = release.date_eol
              /\ IsNull(node.urgency)  => release'.urgency = release.urgency
              /\ (/\ IsNull(node.timestamp)
                  /\ (IsNull(node.date) \/ BadDate(node))) =>
                     release'.timestamp = release.timestamp]_vars

\* A node without version, type, date, date_eol, timestamp and urgency was
\* loaded into a record with all of them set: the version is unset and the
\* others are as they were set.
C16_Witness ==
    /\ LoadedInto
    /\ op.name = "as_release_load_from_xml"
    /\ IsNull(op.node.version) /\ IsNull(op.node.type) /\ IsNull(op.node.date)
    /\ IsNull(op.node.date_eol) /\ IsNull(op.node.timestamp)
    /\ IsNull(op.node.urgency)
    /\ IsNull(release.version)
    /\ release.kind = AS_RELEASE_KIND_DEVELOPMENT
    /\ release.date = Some(DateOnly(2020, 1, 1))
    /\ release.timestamp = Ts(1577836800)
    /\ release.date_eol = Some(DateOnly(2030, 6, 30))
    /\ release.urgency = AS_URGENCY_KIND_HIGH

============================================================================
